---- MODULE Spec2Model ----
(***************************************************************************)
(* The voice assistant's event dialogue: the router                        *)
(* (assistant.py, AI_Assistant.process_user_input), the slot-filling       *)
(* state machine (adding_events.py, EventHandler.process_query,            *)
(* _get_next_question, check_conflicts), the commit pipeline               *)
(* (_finalize_event, save_event_to_db, add_to_google_calendar) and the     *)
(* recogniser's callback (speech_handler.py, recognized_callback).         *)
(* Spec takes one utterance per step, from its recognition to the return   *)
(* of the callback; SpeechSpec takes the callback's call and its return as *)
(* separate steps.                                                         *)
(*                                                                         *)
(* Python strings are sequences of one-character strings, so that `in`,    *)
(* lower(), strip() and len() are computed as Python computes them.        *)
(* A JSON value (what json.loads gives) is a record [t, s]: null, a        *)
(* string, or a number.  A reply of the LLM to a JSON prompt is a sequence *)
(* of tokens: code-fence markers, free text, and JSON documents.           *)
(***************************************************************************)
EXTENDS Naturals, Sequences, FiniteSets, TLC

VARIABLES
  current_event,          \* EventHandler.current_event: key -> value
  is_creating_event,      \* EventHandler.is_creating_event
  is_updating_event,      \* EventHandler.is_updating_event
  current_question,       \* EventHandler.current_question ("None" or a field name)
  awaiting_confirmation,  \* EventHandler.awaiting_confirmation
  llm_interface,          \* EventHandler.llm_interface is not None
  calendar_service,       \* EventHandler.calendar_service is not None
  in_event_creation,      \* AI_Assistant.in_event_creation
  utterance,              \* the utterance of the last turn
  route,                  \* the handlers process_user_input called in the last turn
  calls,                  \* the collaborator calls process_query made in the last turn
  response,               \* what the last turn sent to send_to_tts
  spoken,                 \* the texts of the calls of send_to_tts in the last turn
  speech_recognizer,      \* SpeechHandler.speech_recognizer is not None (listening)
  session_active,         \* SpeechHandler.session_active
  callbacks_running,      \* calls of callback_function that have not returned
  primary_calendar,       \* the events of the remote calendar 'primary': id -> event
  returned                \* what the last operation of GoogleCalendarHandler gave its caller

\* the dialogue: the event handler, the router and the last turn
dialogue == <<current_event, is_creating_event, is_updating_event, current_question,
              awaiting_confirmation, llm_interface, calendar_service, in_event_creation,
              utterance, route, calls, response, spoken>>

\* the speech handler
speech == <<speech_recognizer, session_active, callbacks_running>>

\* the remote calendar and the last operation on it
calendar == <<primary_calendar, returned>>

vars == <<dialogue, speech, calendar>>

-----------------------------------------------------------------------------
(* Python strings *)

UpperCase == <<"A","B","C","D","E","F","G","H","I","J","K","L","M","N","O","P","Q","R","S","T","U","V","W","X","Y","Z">>
LowerCase == <<"a","b","c","d","e","f","g","h","i","j","k","l","m","n","o","p","q","r","s","t","u","v","w","x","y","z">>

\* str.lower() on one character
LowerChar(c) ==
  IF \E i \in 1..Len(UpperCase) : UpperCase[i] = c
  THEN LowerCase[CHOOSE i \in 1..Len(UpperCase) : UpperCase[i] = c]
  ELSE c

\* str.lower()
Lower(s) == [i \in 1..Len(s) |-> LowerChar(s[i])]

\* Python's `sub in s`
Contains(s, sub) ==
  \E i \in 0..Len(s) :
    /\ i + Len(sub) <= Len(s)
    /\ \A j \in 1..Len(sub) : s[i + j] = sub[j]

\* any(p in s for p in list)
ContainsAny(s, list) == \E k \in 1..Len(list) : Contains(s, list[k])

\* the backquote character, which a TLA+ string cannot hold
BQ == "bq"

IsSpace(c) == c \in {" ", "\n", "\t"}

\* str.strip()
Strip(s) ==
  IF \A i \in 1..Len(s) : IsSpace(s[i]) THEN <<>>
  ELSE LET a == CHOOSE i \in 1..Len(s) :
                  /\ ~IsSpace(s[i])
                  /\ \A j \in 1..(i - 1) : IsSpace(s[j])
           b == CHOOSE i \in 1..Len(s) :
                  /\ ~IsSpace(s[i])
                  /\ \A j \in (i + 1)..Len(s) : IsSpace(s[j])
       IN  SubSeq(s, a, b)

-----------------------------------------------------------------------------
(* JSON values held by the draft *)

None == [t |-> "null", s |-> <<>>]
Str(chars) == [t |-> "str", s |-> chars]
\* a JSON number other than 0, such as 30
Num == [t |-> "num", s |-> <<>>]

\* Python truthiness: `if value:` / `not value`
Truthy(v) == \/ v.t = "num"
             \/ v.t = "str" /\ v.s # <<>>

FieldNames == <<"name", "date", "time", "location", "details", "reminder">>
Fields == {FieldNames[i] : i \in 1..Len(FieldNames)}

NoDetails == Str(<<"N","o"," ","d","e","t","a","i","l","s"," ","p","r","o","v","i","d","e","d">>)
NoReminder == Str(<<"N","o"," ","r","e","m","i","n","d","e","r">>)

\* the dict literal of __init__ and of _finalize_event
EmptyEvent ==
  [name |-> None, date |-> None, time |-> None, location |-> None,
   details |-> NoDetails, reminder |-> NoReminder]

ReminderLabels ==
  << <<"5"," ","m","i","n","u","t","e","s">>, <<"1","0"," ","m","i","n","u","t","e","s">>, <<"1","5"," ","m","i","n","u","t","e","s">>, <<"3","0"," ","m","i","n","u","t","e","s">>,
     <<"1"," ","h","o","u","r">>, <<"2"," ","h","o","u","r","s">>, <<"1"," ","d","a","y">> >>

\* self.reminder_options, in the dict's iteration order
ReminderMinutes == <<5, 10, 15, 30, 60, 120, 1440>>

\* the fallback of save_event_to_db for a reminder text that matches no label
DefaultReminderMinutes == 10

-----------------------------------------------------------------------------
(* The LLM collaborator *)

SorryMessage == <<"S","o","r","r","y",","," ","I"," ","d","i","d","n","'","t"," ","u","n","d","e","r","s","t","a","n","d"," ","t","h","a","t","."," ","C","a","n"," ","y","o","u"," ","r","e","p","h","r","a","s","e","?">>
UnreachableMessage == <<"I","'","m"," ","h","a","v","i","n","g"," ","t","r","o","u","b","l","e"," ","r","e","a","c","h","i","n","g"," ","m","y"," ","k","n","o","w","l","e","d","g","e"," ","b","a","s","e","."," ","T","r","y"," ","a","g","a","i","n"," ","l","a","t","e","r",".">>

\* What the HTTP request of query_llm gives: a message content, or a
\* request error (kind "error").  An empty content is the content "".
Content(chars) == [kind |-> "content", s |-> chars]
RequestError == [kind |-> "error", s |-> <<>>]

\* LLMInterface.query_llm: always returns a non-empty string
query_llm(net) ==
  IF net.kind = "error" THEN UnreachableMessage
  ELSE IF Strip(net.s) = <<>> THEN SorryMessage
  ELSE Strip(net.s)

\* The JSON documents of the model and what json.loads gives for each:
\* <<text, is a dict, the dict>>.  Any other text raises JSONDecodeError.
JsonDocuments ==
  << << <<"{","}">>, TRUE, <<>> >>,
     << <<"{","\"","n","a","m","e","\"",":","n","u","l","l",",","\"","d","a","t","e","\"",":","\"","2","0","2","5","-","0","3","-","2","1","\"",",","\"","t","i","m","e","\"",":","\"","1","5",":","0","0",":","0","0","\"","}">>, TRUE,
        [name |-> None, date |-> Str(<<"2","0","2","5","-","0","3","-","2","1">>), time |-> Str(<<"1","5",":","0","0",":","0","0">>)] >>,
     << <<"{","\"","n","a","m","e","\"",":","\"","S","t","a","n","d","u","p","\"",",","\"","d","a","t","e","\"",":","\"","2","0","2","5","-","0","3","-","2","1","\"",",","\"","t","i","m","e","\"",":","\"","1","5",":","0","0",":","0","0","\"",",","\"","l","o","c","a","t","i","o","n","\"",":","\"","O","f","f","i","c","e","\"",",","\"","d","e","t","a","i","l","s","\"",":","\"","D","a","i","l","y"," ","s","y","n","c","\"",",","\"","r","e","m","i","n","d","e","r","\"",":","\"","1"," ","h","o","u","r","\"","}">>, TRUE,
        [name |-> Str(<<"S","t","a","n","d","u","p">>), date |-> Str(<<"2","0","2","5","-","0","3","-","2","1">>),
         time |-> Str(<<"1","5",":","0","0",":","0","0">>), location |-> Str(<<"O","f","f","i","c","e">>),
         details |-> Str(<<"D","a","i","l","y"," ","s","y","n","c">>), reminder |-> Str(<<"1"," ","h","o","u","r">>)] >>,
     << <<"{","\"","n","a","m","e","\"",":","\"","G","a","l","a","\"",",","\"","d","a","t","e","\"",":","\"","9","9","9","9","-","1","2","-","3","1","\"",",","\"","t","i","m","e","\"",":","\"","2","3",":","3","0",":","0","0","\"",",","\"","l","o","c","a","t","i","o","n","\"",":","\"","O","f","f","i","c","e","\"",",","\"","d","e","t","a","i","l","s","\"",":","\"","D","a","i","l","y"," ","s","y","n","c","\"",",","\"","r","e","m","i","n","d","e","r","\"",":","\"","1"," ","h","o","u","r","\"","}">>, TRUE,
        [name |-> Str(<<"G","a","l","a">>), date |-> Str(<<"9","9","9","9","-","1","2","-","3","1">>),
         time |-> Str(<<"2","3",":","3","0",":","0","0">>), location |-> Str(<<"O","f","f","i","c","e">>),
         details |-> Str(<<"D","a","i","l","y"," ","s","y","n","c">>), reminder |-> Str(<<"1"," ","h","o","u","r">>)] >>,
     << <<"{","\"","t","i","t","l","e","\"",":","\"","S","t","a","n","d","u","p","\"",",","\"","r","e","m","i","n","d","e","r","\"",":","3","0","}">>, TRUE,
        [title |-> Str(<<"S","t","a","n","d","u","p">>), reminder |-> Num] >>,
     << <<"{","\"","l","o","c","a","t","i","o","n","\"",":","\"","R","o","o","m"," ","2","\"",",","\"","v","e","n","u","e","\"",":","\"","R","o","o","m"," ","2","\"","}">>, TRUE,
        [location |-> Str(<<"R","o","o","m"," ","2">>), venue |-> Str(<<"R","o","o","m"," ","2">>)] >>,
     << <<"{","\"","n","a","m","e","\"",":","\"","\"",",","\"","d","e","t","a","i","l","s","\"",":","n","u","l","l","}">>, TRUE,
        [name |-> Str(<<>>), details |-> None] >>,
     << <<"{","\"","r","e","m","i","n","d","e","r","\"",":","3","0","}">>, TRUE, [reminder |-> Num] >>,
     << <<"{","\"","t","i","t","l","e","\"",":","\"","R","e","t","r","o","\"","}">>, TRUE, [title |-> Str(<<"R","e","t","r","o">>)] >>,
     << <<"{","\"","r","e","m","i","n","d","e","r","\"",":","\"","N","o"," ","r","e","m","i","n","d","e","r","\"","}">>, TRUE, [reminder |-> Str(<<"N","o"," ","r","e","m","i","n","d","e","r">>)] >>,
     << <<"[","]">>, FALSE, <<>> >> >>

IsJson(text) == \E i \in 1..Len(JsonDocuments) : JsonDocuments[i][1] = text

\* json.loads(text), for a text that IsJson
JsonLoads(text) ==
  LET doc == JsonDocuments[CHOOSE i \in 1..Len(JsonDocuments) : JsonDocuments[i][1] = text]
  IN  [isdict |-> doc[2], dict |-> doc[3]]

Fence == <<BQ,BQ,BQ>>
FenceJson == <<BQ,BQ,BQ,"j","s","o","n">>

\* the least i with s[i+1 .. i+Len(sep)] = sep; Contains(s, sep) is assumed
Find(s, sep) ==
  CHOOSE i \in 0..Len(s) :
    /\ i + Len(sep) <= Len(s)
    /\ \A j \in 1..Len(sep) : s[i + j] = sep[j]
    /\ \A k \in 0..(i - 1) :
         ~(k + Len(sep) <= Len(s) /\ \A j \in 1..Len(sep) : s[k + j] = sep[j])

\* s.split(sep)[0]
SplitHead(s, sep) == IF Contains(s, sep) THEN SubSeq(s, 1, Find(s, sep)) ELSE s

\* what follows the first sep in s; Contains(s, sep) is assumed
AfterFirst(s, sep) == SubSeq(s, Find(s, sep) + Len(sep) + 1, Len(s))

\* s.split(sep)[1], for s that contains sep
SplitSecond(s, sep) == SplitHead(AfterFirst(s, sep), sep)

\* the fence stripping of extract_event_details and of the update branch
JsonText(reply) ==
  IF Contains(reply, FenceJson)
  THEN Strip(SplitHead(SplitSecond(reply, FenceJson), Fence))
  ELSE IF Contains(reply, Fence)
  THEN Strip(SplitSecond(reply, Fence))
  ELSE reply

-----------------------------------------------------------------------------
(* Responses: the text of a message and the values formatted into it *)

Msg(text) == [text |-> text, args |-> <<>>]

\* a handler that returns None
NoResponse == Msg("None")

\* the question of _get_next_question for one field
Ask(f) ==
  CASE f = "name" -> Msg("What's the name of the event?")
    [] f = "date" -> Msg("What date is the event? (e.g., March 20, 2025)")
    [] f = "time" -> Msg("What time is the event? (e.g., 3:00 PM)")
    [] f = "location" -> Msg("Where is the event located?")
    [] f = "details" ->
         Msg("Do you want to add any details for the event? If not, just say 'no details'.")
    [] f = "reminder" ->
         Msg("Would you like a reminder? Options are: {options}. Or say 'no reminder'.")

\* EventHandler._format_event_summary
FormatEventSummary(ev) ==
  [text |-> "Event Summary: ... Are you happy with this event? Please say yes or no.",
   args |-> <<ev.name, ev.date, ev.time, ev.location, ev.details, ev.reminder>>]

WhatToChange == Msg("What details would you like to change?")
YesNoReprompt == Msg("Please say yes to confirm or no to modify the event details.")
UpdateNotUnderstood ==
  Msg("I didn't understand which details you want to change. Please specify more clearly, like 'change the date to March 21st'.")
DateNotUnderstood ==
  Msg("I couldn't understand that date. Please provide a date like 'March 20, 2025' or '2025-03-20'.")
TimeNotUnderstood ==
  Msg("I couldn't understand that time. Please provide a time like '3:00 PM' or '15:00'.")
TroubleProcessing ==
  Msg("I'm having trouble processing your request. Let's try again. What event would you like to add to your calendar?")
ErrorResponse == Msg("I'm sorry, I encountered an error. Please try again.")

AddedMessage(ev) ==
  [text |-> "Event '{name}' has been added to your calendar.", args |-> <<ev.name>>]
AddedAndSyncedMessage(ev) ==
  [text |-> "Event '{name}' has been added to your calendar. It's been synced with Google Calendar as well.",
   args |-> <<ev.name>>]
ProblemMessage(err) ==
  [text |-> "There was a problem adding your event: {db_result}", args |-> <<Str(err)>>]

-----------------------------------------------------------------------------
(* What the user may say *)

\* what the speech recogniser may hand to process_user_input
Utterances ==
  { <<"A","d","d"," ","m","e","e","t","i","n","g">>, <<"A","d","d"," ","m","e","e","t","i","n","g"," ","w","h","e","r","e"," ","i","t"," ","r","a","i","n","s">>, <<"Y","e","s">>, <<"n","o","p","e">>, <<"n","o",","," ","y","e","s">>,
    <<"r","a","i","n">>, <<"f","i","n","d">>, <<>> }

\* what the user answers to a question whose answer is taken verbatim: a
\* text, or nothing recognisable
Answers == { <<"r","a","i","n">>, <<>> }

\* what the user answers to the reminder question: a label of the options
\* read out, the words for no reminder, another text, or nothing
\* recognisable
ReminderAnswers ==
  Answers \cup {ReminderLabels[i] : i \in 1..Len(ReminderLabels)} \cup {NoReminder.s}

\* what the user says when asked what to change; process_query only passes
\* it on to the LLM
ChangeRequests == { <<"r","a","i","n">>, <<"A","d","d"," ","m","e","e","t","i","n","g">> }

\* what the user says to end the session
StopCommands == { <<"S","t","o","p"," ","s","e","s","s","i","o","n",".">> }

\* every text the recogniser hands over
Vocabulary ==
  Utterances \cup Answers \cup ReminderAnswers \cup ChangeRequests \cup StopCommands

-----------------------------------------------------------------------------
(* EventHandler *)

EventPhrases ==
  << <<"a","d","d"," ","e","v","e","n","t">>, <<"c","r","e","a","t","e"," ","e","v","e","n","t">>, <<"s","c","h","e","d","u","l","e"," ","e","v","e","n","t">>, <<"n","e","w"," ","e","v","e","n","t">>,
     <<"a","d","d"," ","t","o"," ","c","a","l","e","n","d","a","r">>, <<"p","u","t"," ","i","n"," ","c","a","l","e","n","d","a","r">>, <<"c","r","e","a","t","e"," ","a"," ","r","e","m","i","n","d","e","r">>,
     <<"a","d","d"," ","a","p","p","o","i","n","t","m","e","n","t">>, <<"s","c","h","e","d","u","l","e"," ","a","p","p","o","i","n","t","m","e","n","t">>, <<"n","e","w"," ","a","p","p","o","i","n","t","m","e","n","t">>,
     <<"a","d","d"," ","m","e","e","t","i","n","g">>, <<"s","c","h","e","d","u","l","e"," ","m","e","e","t","i","n","g">>, <<"n","e","w"," ","m","e","e","t","i","n","g">>,
     <<"a","d","d"," ","t","o"," ","m","y"," ","c","a","l","e","n","d","a","r">>, <<"s","c","h","e","d","u","l","e"," ","i","n"," ","m","y"," ","c","a","l","e","n","d","a","r">> >>

\* EventHandler.is_event_query
is_event_query(query) == ContainsAny(Lower(query), EventPhrases)

\* is_event_query for each text of the vocabulary
EventQueryOf == [u \in Vocabulary |-> is_event_query(u)]

\* The state of an EventHandler, as one record
Handler(ev, creating, updating, question, awaiting) ==
  [ev |-> ev, creating |-> creating, updating |-> updating,
   question |-> question, awaiting |-> awaiting]

\* One collaborator call: the operation, how it ended, the event it was
\* given, the reminder minutes it derived (0: none) and, for the LLM, the
\* text query_llm returned
Call(op, res, ev, minutes) ==
  [op |-> op, res |-> res, ev |-> ev, minutes |-> minutes, reply |-> <<>>]

\* What a method gives back: the handler's state after it, the value it
\* returned (NoResponse when it raised), and the calls it made
Outcome(h, ret, raised, cs) == [h |-> h, ret |-> ret, raised |-> raised, calls |-> cs]

\* NextField with the date examined before the name
NextField_DateFirst(ev) ==
  IF ~Truthy(ev.date) THEN "date"
  ELSE IF ~Truthy(ev.name) THEN "name"
  ELSE IF ~Truthy(ev.time) THEN "time"
  ELSE IF ~Truthy(ev.location) THEN "location"
  ELSE IF ev.details = NoDetails THEN "details"
  ELSE IF ev.reminder = NoReminder THEN "reminder"
  ELSE "None"

\* the chain of `if` of _get_next_question: the field to ask for, "None"
\* when every field is set
NextField(ev) ==
  IF ~Truthy(ev.name) THEN "name"
  ELSE IF ~Truthy(ev.date) THEN "date"
  ELSE IF ~Truthy(ev.time) THEN "time"
  ELSE IF ~Truthy(ev.location) THEN "location"
  ELSE IF ev.details = NoDetails THEN "details"
  ELSE IF ev.reminder = NoReminder THEN "reminder"
  ELSE "None"

IsDigit(c) == c \in {"0", "1", "2", "3", "4", "5", "6", "7", "8", "9"}

\* whether the characters of s are digits except for sep at the places in at
DigitsWith(s, n, sep, at) ==
  /\ Len(s) = n
  /\ \A i \in 1..n : IF i \in at THEN s[i] = sep ELSE IsDigit(s[i])

\* datetime.strptime(f"{date} {time}", "%Y-%m-%d %H:%M:%S") does not raise
\* ValueError; of the forms strptime takes, only the zero-padded one is
\* recognised, and the ranges of the numbers are not checked
ParsesDateTime(ev) ==
  /\ ev.date.t = "str" /\ DigitsWith(ev.date.s, 10, "-", {5, 8})
  /\ ev.time.t = "str" /\ DigitsWith(ev.time.s, 8, ":", {3, 6})

\* start + timedelta(hours=1) raises OverflowError ("date value out of
\* range"): the start is in the last hour of the last day datetime has
LastHourOverflows(ev) ==
  /\ ParsesDateTime(ev)
  /\ ev.date.s = <<"9","9","9","9","-","1","2","-","3","1">> /\ SubSeq(ev.time.s, 1, 2) = <<"2","3">>

NoConflictsFound == "No conflicts found"
CouldNotParse == "Could not parse date and time for conflict checking"
OverflowError == "OverflowError"

\* EventHandler.check_conflicts(date, time) with no end time: the message it
\* returns, or the OverflowError that `except ValueError` lets through.  The
\* calendar is not consulted.
check_conflicts(ev) ==
  IF ~ParsesDateTime(ev) THEN CouldNotParse
  ELSE IF LastHourOverflows(ev) THEN OverflowError
  ELSE NoConflictsFound

\* lines 484-486: the conflict check of the complete draft, whose message
\* is printed
ConflictCall(ev) == Call("check_conflicts", check_conflicts(ev), ev, 0)

\* _get_next_question returning the question without recording it in
\* current_question
get_next_question_ForgetsQuestion(h, cs) ==
  LET f == NextField(h.ev)
      checks == Truthy(h.ev.date) /\ Truthy(h.ev.time)
  IN  IF f # "None"
      THEN Outcome(h, Ask(f), FALSE, cs)
      ELSE IF checks /\ check_conflicts(h.ev) = OverflowError
      THEN Outcome([h EXCEPT !.question = "None", !.awaiting = TRUE],
                   NoResponse, TRUE, Append(cs, ConflictCall(h.ev)))
      ELSE Outcome([h EXCEPT !.question = "None", !.awaiting = TRUE],
                   FormatEventSummary(h.ev), FALSE,
                   IF checks THEN Append(cs, ConflictCall(h.ev)) ELSE cs)

\* _get_next_question leaving current_question as it was when the draft is
\* complete
get_next_question_KeepsQuestion(h, cs) ==
  LET f == NextField(h.ev)
      checks == Truthy(h.ev.date) /\ Truthy(h.ev.time)
  IN  IF f # "None"
      THEN Outcome([h EXCEPT !.question = f], Ask(f), FALSE, cs)
      ELSE IF checks /\ check_conflicts(h.ev) = OverflowError
      THEN Outcome([h EXCEPT !.awaiting = TRUE],
                   NoResponse, TRUE, Append(cs, ConflictCall(h.ev)))
      ELSE Outcome([h EXCEPT !.awaiting = TRUE],
                   FormatEventSummary(h.ev), FALSE,
                   IF checks THEN Append(cs, ConflictCall(h.ev)) ELSE cs)

\* EventHandler._get_next_question; an exception of check_conflicts leaves
\* it after lines 480-481
get_next_question(h, cs) ==
  LET f == NextField(h.ev)
      checks == Truthy(h.ev.date) /\ Truthy(h.ev.time)
  IN  IF f # "None"
      THEN Outcome([h EXCEPT !.question = f], Ask(f), FALSE, cs)
      ELSE IF checks /\ check_conflicts(h.ev) = OverflowError
      THEN Outcome([h EXCEPT !.question = "None", !.awaiting = TRUE],
                   NoResponse, TRUE, Append(cs, ConflictCall(h.ev)))
      ELSE Outcome([h EXCEPT !.question = "None", !.awaiting = TRUE],
                   FormatEventSummary(h.ev), FALSE,
                   IF checks THEN Append(cs, ConflictCall(h.ev)) ELSE cs)

\* `option.lower() in reminder_text.lower()` for the i-th reminder option
LabelMatches(i, text) == Contains(Lower(text), Lower(ReminderLabels[i]))

\* the loop over reminder_options.items(), left by `break` at the first
\* option that matches: its minutes, 0 when none matches
MatchedMinutes(text) ==
  IF \E i \in 1..Len(ReminderLabels) : LabelMatches(i, text)
  THEN ReminderMinutes[CHOOSE i \in 1..Len(ReminderLabels) :
                         /\ LabelMatches(i, text)
                         /\ \A k \in 1..(i - 1) : ~LabelMatches(k, text)]
  ELSE 0

\* the reminder texts a draft of the model can hold
ReminderTexts ==
  Vocabulary \cup {ReminderLabels[i] : i \in 1..Len(ReminderLabels)} \cup {NoReminder.s}

\* the minutes of the loop for each of them
MatchedMinutesOf == [text \in ReminderTexts |-> MatchedMinutes(text)]

\* HasReminder without the test of the sentinel
HasReminder_AnyText(ev) == Truthy(ev.reminder)

\* `if reminder_text and reminder_text != 'No reminder'`
HasReminder(ev) == Truthy(ev.reminder) /\ ev.reminder # NoReminder

\* reminder_text.lower() raises AttributeError for a value that is no string
LowerRaises(ev) == HasReminder(ev) /\ ev.reminder.t # "str"

\* the reminder column of the row: f"{reminder_minutes} minutes before" if
\* reminder_minutes else "No reminder"
ReminderColumn(minutes) ==
  IF minutes # 0 THEN [text |-> "{reminder_minutes} minutes before", minutes |-> minutes]
  ELSE [text |-> "No reminder", minutes |-> 0]

\* SavedMinutes without the fallback for a text that matches no option
SavedMinutes_NoDefault(ev) ==
  IF ~HasReminder(ev) THEN 0 ELSE MatchedMinutesOf[ev.reminder.s]

\* reminder_minutes of save_event_to_db (0 stands for None)
SavedMinutes(ev) ==
  IF ~HasReminder(ev) THEN 0
  ELSE IF MatchedMinutesOf[ev.reminder.s] # 0 THEN MatchedMinutesOf[ev.reminder.s]
  ELSE DefaultReminderMinutes

\* reminder_minutes of add_to_google_calendar (0: no reminder override)
CalendarMinutes(ev) ==
  IF ~HasReminder(ev) THEN 0 ELSE MatchedMinutesOf[ev.reminder.s]

ConnectionErrorText == <<"D","a","t","a","b","a","s","e"," ","c","o","n","n","e","c","t","i","o","n"," ","e","r","r","o","r">>
\* str(e) of a mysql.connector.Error raised by execute or commit
MySqlErrorText == <<"2","0","1","3",":"," ","L","o","s","t"," ","c","o","n","n","e","c","t","i","o","n"," ","t","o"," ","M","y","S","Q","L"," ","s","e","r","v","e","r"," ","d","u","r","i","n","g"," ","q","u","e","r","y">>

\* EventHandler.save_event_to_db: the results (db_success, db_result) it can
\* give for one event; a result with raised = TRUE is the AttributeError of
\* reminder_text.lower(), which `except mysql.connector.Error` lets through
save_event_to_db(ev) ==
  {[ok |-> FALSE, raised |-> FALSE, err |-> ConnectionErrorText,
    call |-> Call("save_event_to_db", "no connection", ev, 0)]}
  \cup
  IF LowerRaises(ev)
  THEN {[ok |-> FALSE, raised |-> TRUE, err |-> <<>>,
         call |-> Call("save_event_to_db", "raised", ev, 0)]}
  ELSE {[ok |-> TRUE, raised |-> FALSE, err |-> <<>>,
         call |-> Call("save_event_to_db", "inserted", ev, SavedMinutes(ev))],
        [ok |-> FALSE, raised |-> FALSE, err |-> MySqlErrorText,
         call |-> Call("save_event_to_db", "error", ev, SavedMinutes(ev))]}

\* EventHandler.add_to_google_calendar, with a calendar service: the
\* (calendar_success, call) pairs it can give; every exception is caught
add_to_google_calendar(ev) ==
  IF ~ParsesDateTime(ev)
  THEN {[ok |-> FALSE, call |-> Call("add_to_google_calendar", "invalid date or time", ev, 0)]}
  ELSE IF LastHourOverflows(ev) \/ LowerRaises(ev)
  THEN {[ok |-> FALSE, call |-> Call("add_to_google_calendar", "error", ev, 0)]}
  ELSE {[ok |-> TRUE,
         call |-> Call("add_to_google_calendar", "inserted", ev, CalendarMinutes(ev))],
        [ok |-> FALSE,
         call |-> Call("add_to_google_calendar", "error", ev, CalendarMinutes(ev))]}

\* SyncsCalendar without the test of db_success
SyncsCalendar_IgnoresStorage(db_success, cal) == cal

\* the `if db_success and self.calendar_service` of _finalize_event
SyncsCalendar(db_success, cal) == db_success /\ cal

\* FinalizeMessage reporting success only when the calendar was synced too
FinalizeMessage_NeedsSync(ev, db_success, db_result, calendar_success) ==
  IF db_success /\ calendar_success THEN AddedAndSyncedMessage(ev)
  ELSE ProblemMessage(db_result)

\* FinalizeMessage with the sync clause whenever the storage write succeeded
FinalizeMessage_SyncAssumed(ev, db_success, db_result, calendar_success) ==
  IF db_success THEN AddedAndSyncedMessage(ev) ELSE ProblemMessage(db_result)

\* the result message of _finalize_event
FinalizeMessage(ev, db_success, db_result, calendar_success) ==
  IF db_success
  THEN IF calendar_success THEN AddedAndSyncedMessage(ev) ELSE AddedMessage(ev)
  ELSE ProblemMessage(db_result)

\* the reset of lines 510-513 without the fresh draft of lines 514-521
ResetHandler_KeepsDraft(h) == Handler(h.ev, FALSE, FALSE, "None", FALSE)

\* the reset at the end of _finalize_event
ResetHandler(h) == Handler(EmptyEvent, FALSE, FALSE, "None", FALSE)

\* EventHandler._finalize_event; cal: a calendar service is configured
finalize_event(h, cal) ==
  UNION {
    IF db.raised
    THEN {Outcome(h, NoResponse, TRUE, <<db.call>>)}
    ELSE IF SyncsCalendar(db.ok, cal)
    THEN {Outcome(ResetHandler(h), FinalizeMessage(h.ev, db.ok, db.err, gc.ok),
                  FALSE, <<db.call, gc.call>>)
            : gc \in add_to_google_calendar(h.ev)}
    ELSE {Outcome(ResetHandler(h), FinalizeMessage(h.ev, db.ok, db.err, FALSE),
                  FALSE, <<db.call>>)}
    : db \in save_event_to_db(h.ev) }

-----------------------------------------------------------------------------
(* What the LLM may answer to each prompt of process_query *)

ExtractionReplies ==
  << Content(<<"{","}">>),
     Content(<<BQ,BQ,BQ,"j","s","o","n","\n","{","\"","n","a","m","e","\"",":","n","u","l","l",",","\"","d","a","t","e","\"",":","\"","2","0","2","5","-","0","3","-","2","1","\"",",","\"","t","i","m","e","\"",":","\"","1","5",":","0","0",":","0","0","\"","}","\n",BQ,BQ,BQ>>),
     Content(<<"{","\"","n","a","m","e","\"",":","\"","S","t","a","n","d","u","p","\"",",","\"","d","a","t","e","\"",":","\"","2","0","2","5","-","0","3","-","2","1","\"",",","\"","t","i","m","e","\"",":","\"","1","5",":","0","0",":","0","0","\"",",","\"","l","o","c","a","t","i","o","n","\"",":","\"","O","f","f","i","c","e","\"",",","\"","d","e","t","a","i","l","s","\"",":","\"","D","a","i","l","y"," ","s","y","n","c","\"",",","\"","r","e","m","i","n","d","e","r","\"",":","\"","1"," ","h","o","u","r","\"","}">>),
     Content(<<"{","\"","t","i","t","l","e","\"",":","\"","S","t","a","n","d","u","p","\"",",","\"","r","e","m","i","n","d","e","r","\"",":","3","0","}">>),
     Content(<<BQ,BQ,BQ,"\n","{","\"","n","a","m","e","\"",":","\"","\"",",","\"","d","e","t","a","i","l","s","\"",":","n","u","l","l","}","\n",BQ,BQ,BQ>>),
     Content(<<"{","\"","n","a","m","e","\"",":","\"","G","a","l","a","\"",",","\"","d","a","t","e","\"",":","\"","9","9","9","9","-","1","2","-","3","1","\"",",","\"","t","i","m","e","\"",":","\"","2","3",":","3","0",":","0","0","\"",",","\"","l","o","c","a","t","i","o","n","\"",":","\"","O","f","f","i","c","e","\"",",","\"","d","e","t","a","i","l","s","\"",":","\"","D","a","i","l","y"," ","s","y","n","c","\"",",","\"","r","e","m","i","n","d","e","r","\"",":","\"","1"," ","h","o","u","r","\"","}">>),
     Content(<<"[","]">>),
     Content(<<"S","u","r","e","!"," ","W","h","i","c","h"," ","e","v","e","n","t","?">>),
     RequestError >>

UpdateReplies ==
  << Content(<<"{","\"","l","o","c","a","t","i","o","n","\"",":","\"","R","o","o","m"," ","2","\"",",","\"","v","e","n","u","e","\"",":","\"","R","o","o","m"," ","2","\"","}">>),
     Content(<<BQ,BQ,BQ,"\n","{","\"","n","a","m","e","\"",":","\"","\"",",","\"","d","e","t","a","i","l","s","\"",":","n","u","l","l","}","\n",BQ,BQ,BQ>>),
     Content(<<"{","\"","r","e","m","i","n","d","e","r","\"",":","3","0","}">>),
     Content(<<"{","\"","t","i","t","l","e","\"",":","\"","R","e","t","r","o","\"","}">>),
     Content(<<"{","\"","r","e","m","i","n","d","e","r","\"",":","\"","N","o"," ","r","e","m","i","n","d","e","r","\"","}">>),
     Content(<<"[","]">>),
     RequestError >>

DateReplies ==
  << Content(<<" ","2","0","2","5","-","0","3","-","2","1">>), Content(<<"M","a","r","c","h"," ","2","1","s","t">>), Content(<<"2","1","/","3","/","2","0","2","5">>),
     Content(<<>>), RequestError >>

TimeReplies ==
  << Content(<<"1","5",":","0","0",":","0","0","\n">>), Content(<<"1","0",":","3","0",":","0","0">>), Content(<<"1","2",":","0","0",":","0","0">>),
     Content(<<>>), RequestError >>

\* One call of query_llm: how the request ended and the text returned
Asked(net) == [kind |-> net.kind, reply |-> query_llm(net)]

\* the record of that call (it is given no event: ev is the empty event)
LLMCall(asked) ==
  [Call("query_llm", asked.kind, EmptyEvent, 0) EXCEPT !.reply = asked.reply]

\* EventHandler.extract_event_details on the reply `net`: what json.loads
\* returned, {} for a reply that is no JSON
extract_event_details(net) ==
  LET text == JsonText(Strip(query_llm(net)))
  IN  IF IsJson(text) THEN JsonLoads(text) ELSE [isdict |-> TRUE, dict |-> <<>>]

\* ApplyExtracted writing every extracted value, null and empty ones too
ApplyExtracted_WritesAll(ev, dict) ==
  [k \in DOMAIN ev \cup DOMAIN dict |-> IF k \in DOMAIN dict THEN dict[k] ELSE ev[k]]

\* `for key, value in extracted_details.items(): if value:
\*  self.current_event[key] = value`
ApplyExtracted(ev, dict) ==
  LET set == {k \in DOMAIN dict : Truthy(dict[k])}
  IN  [k \in DOMAIN ev \cup set |-> IF k \in set THEN dict[k] ELSE ev[k]]

\* `for field, value in updates.items(): if field in self.current_event:
\*  self.current_event[field] = value`
ApplyUpdates(ev, dict) ==
  [k \in DOMAIN ev |-> IF k \in DOMAIN dict THEN dict[k] ELSE ev[k]]

\* the extraction of lines 339, for each reply the LLM may give
ExtractionAsked ==
  [i \in DOMAIN ExtractionReplies |->
     [llm |-> Asked(ExtractionReplies[i]),
      got |-> extract_event_details(ExtractionReplies[i])]]

\* process_query with no session, without the test of line 337
StartEvent_AlwaysStarts(h, query, llm) ==
  IF ~llm
  THEN {get_next_question([h EXCEPT !.creating = TRUE], <<>>)}
  ELSE { LET a == ExtractionAsked[i]
         IN  IF ~a.got.isdict
             THEN Outcome(h, NoResponse, TRUE, <<LLMCall(a.llm)>>)
             ELSE get_next_question(
                    [h EXCEPT !.ev = ApplyExtracted(h.ev, a.got.dict), !.creating = TRUE],
                    <<LLMCall(a.llm)>>)
         : i \in DOMAIN ExtractionAsked }

\* process_query with no session: lines 336-351
StartEvent(h, query, llm) ==
  IF ~EventQueryOf[query] THEN {Outcome(h, NoResponse, FALSE, <<>>)}
  ELSE IF ~llm
  THEN {get_next_question([h EXCEPT !.creating = TRUE], <<>>)}
  ELSE { LET a == ExtractionAsked[i]
         IN  IF ~a.got.isdict
             THEN Outcome(h, NoResponse, TRUE, <<LLMCall(a.llm)>>)
             ELSE get_next_question(
                    [h EXCEPT !.ev = ApplyExtracted(h.ev, a.got.dict), !.creating = TRUE],
                    <<LLMCall(a.llm)>>)
         : i \in DOMAIN ExtractionAsked }

Yes == <<"y","e","s">>
No == <<"n","o">>

\* ConfirmationAnswer taking every utterance without "yes" as a "no"
ConfirmationAnswer_ElseIsNo(query) ==
  IF Contains(Lower(query), Yes) THEN "yes" ELSE "no"

\* ConfirmationAnswer taking "no" only as the whole utterance
ConfirmationAnswer_WholeWord(query) ==
  IF Contains(Lower(query), Yes) THEN "yes"
  ELSE IF Lower(query) = No THEN "no"
  ELSE "other"

\* the tests of lines 355 and 357: which branch an utterance takes
ConfirmationAnswer(query) ==
  IF Contains(Lower(query), Yes) THEN "yes"
  ELSE IF Contains(Lower(query), No) THEN "no"
  ELSE "other"

\* the branch each text of the vocabulary takes
ConfirmationAnswerOf == [u \in Vocabulary |-> ConfirmationAnswer(u)]

\* ConfirmOther returning None instead of the re-prompt
ConfirmOther_ReturnsNone(h) == Outcome(h, NoResponse, FALSE, <<>>)

\* lines 361-362: neither "yes" nor "no"
ConfirmOther(h) == Outcome(h, YesNoReprompt, FALSE, <<>>)

\* the confirmation branch: lines 354-362
Confirm(h, query, cal) ==
  IF ConfirmationAnswerOf[query] = "yes" THEN finalize_event(h, cal)
  ELSE IF ConfirmationAnswerOf[query] = "no"
  THEN {Outcome([h EXCEPT !.awaiting = FALSE, !.updating = TRUE], WhatToChange, FALSE, <<>>)}
  ELSE {ConfirmOther(h)}

\* ParseUpdates taking every reply that json.loads accepts for an update
ParseUpdates_AnyJson(net) ==
  LET text == JsonText(query_llm(net))
  IN  IF IsJson(text)
      THEN [ok |-> TRUE, dict |-> JsonLoads(text).dict]
      ELSE [ok |-> FALSE, dict |-> <<>>]

\* lines 381-389 for one reply: the dict of updates, or the exception that
\* line 401 catches (no JSON, or JSON that is no dict and has no items())
ParseUpdates(net) ==
  LET text == JsonText(query_llm(net))
  IN  IF IsJson(text) /\ JsonLoads(text).isdict
      THEN [ok |-> TRUE, dict |-> JsonLoads(text).dict]
      ELSE [ok |-> FALSE, dict |-> <<>>]

UpdateAsked ==
  [i \in DOMAIN UpdateReplies |->
     [llm |-> Asked(UpdateReplies[i]), updates |-> ParseUpdates(UpdateReplies[i])]]

\* the update branch: lines 365-403
Update(h, query, llm) ==
  IF ~llm THEN {Outcome(h, NoResponse, TRUE, <<>>)}
  ELSE { LET a == UpdateAsked[i]
         IN  IF a.updates.ok
             THEN Outcome([h EXCEPT !.ev = ApplyUpdates(h.ev, a.updates.dict),
                                    !.updating = FALSE, !.awaiting = TRUE],
                          FormatEventSummary(ApplyUpdates(h.ev, a.updates.dict)),
                          FALSE, <<LLMCall(a.llm)>>)
             ELSE Outcome(h, UpdateNotUnderstood, FALSE, <<LLMCall(a.llm)>>)
         : i \in DOMAIN UpdateAsked }

\* DateAccepted without the test of the length
DateAccepted_AnyText(extracted_date) == extracted_date # <<>>

\* `if extracted_date and len(extracted_date) == 10`
DateAccepted(extracted_date) == extracted_date # <<>> /\ Len(extracted_date) = 10

\* `response.strip()` for each reply the LLM may give to the date prompt
DateAsked ==
  [i \in DOMAIN DateReplies |->
     [llm |-> Asked(DateReplies[i]), extracted |-> Strip(query_llm(DateReplies[i]))]]

\* the answer to the date question: lines 412-424, 444
AnswerDate(h, llm) ==
  IF ~llm THEN {Outcome(h, NoResponse, TRUE, <<>>)}
  ELSE { LET a == DateAsked[i]
         IN  IF DateAccepted(a.extracted)
             THEN get_next_question([h EXCEPT !.ev.date = Str(a.extracted)],
                                    <<LLMCall(a.llm)>>)
             ELSE Outcome(h, DateNotUnderstood, FALSE, <<LLMCall(a.llm)>>)
         : i \in DOMAIN DateAsked }

\* `response.strip()` for each reply the LLM may give to the time prompt
TimeAsked ==
  [i \in DOMAIN TimeReplies |->
     [llm |-> Asked(TimeReplies[i]), extracted |-> Strip(query_llm(TimeReplies[i]))]]

\* the answer to the time question: lines 426-438, 444
AnswerTime(h, llm) ==
  IF ~llm THEN {Outcome(h, NoResponse, TRUE, <<>>)}
  ELSE { LET a == TimeAsked[i]
         IN  IF a.extracted # <<>>
             THEN get_next_question([h EXCEPT !.ev.time = Str(a.extracted)],
                                    <<LLMCall(a.llm)>>)
             ELSE Outcome(h, TimeNotUnderstood, FALSE, <<LLMCall(a.llm)>>)
         : i \in DOMAIN TimeAsked }

\* Answer dropping an empty answer instead of storing it
Answer_KeepsOnEmpty(h, query, llm) ==
  IF h.question \notin DOMAIN h.ev THEN {Outcome(h, TroubleProcessing, FALSE, <<>>)}
  ELSE IF h.question = "date" THEN AnswerDate(h, llm)
  ELSE IF h.question = "time" THEN AnswerTime(h, llm)
  ELSE IF query = <<>> THEN {get_next_question(h, <<>>)}
  ELSE {get_next_question([h EXCEPT !.ev[h.question] = Str(query)], <<>>)}

\* the answer to a question: lines 406-444
Answer(h, query, llm) ==
  IF h.question \notin DOMAIN h.ev THEN {Outcome(h, TroubleProcessing, FALSE, <<>>)}
  ELSE IF h.question = "date" THEN AnswerDate(h, llm)
  ELSE IF h.question = "time" THEN AnswerTime(h, llm)
  ELSE {get_next_question([h EXCEPT !.ev[h.question] = Str(query)], <<>>)}

\* EventHandler.process_query: the outcomes it can have in state h
process_query(h, query, llm, cal) ==
  IF ~h.creating /\ ~h.updating THEN StartEvent(h, query, llm)
  ELSE IF h.awaiting THEN Confirm(h, query, cal)
  ELSE IF h.updating THEN Update(h, query, llm)
  ELSE IF h.question # "None" THEN Answer(h, query, llm)
  ELSE {Outcome(h, TroubleProcessing, FALSE, <<>>)}

-----------------------------------------------------------------------------
(* AI_Assistant *)

WeatherKeywords ==
  << <<"w","e","a","t","h","e","r">>, <<"t","e","m","p","e","r","a","t","u","r","e">>, <<"f","o","r","e","c","a","s","t">>, <<"r","a","i","n">>, <<"s","u","n","n","y">>, <<"c","l","o","u","d","y">>,
     <<"s","n","o","w">>, <<"h","o","t">>, <<"c","o","l","d">>, <<"h","u","m","i","d">>, <<"p","r","e","c","i","p","i","t","a","t","i","o","n">>, <<"s","t","o","r","m">>,
     <<"t","h","u","n","d","e","r","s","t","o","r","m">>, <<"c","l","i","m","a","t","e">>, <<"d","e","g","r","e","e","s">>, <<"c","e","l","s","i","u","s">>, <<"f","a","h","r","e","n","h","e","i","t">> >>

WeatherPhrases ==
  << <<"h","o","w","'","s"," ","t","h","e"," ","w","e","a","t","h","e","r">>, <<"h","o","w"," ","i","s"," ","t","h","e"," ","w","e","a","t","h","e","r">>, <<"w","h","a","t","'","s"," ","t","h","e"," ","w","e","a","t","h","e","r">>,
     <<"w","h","a","t"," ","i","s"," ","t","h","e"," ","w","e","a","t","h","e","r">>, <<"w","e","a","t","h","e","r"," ","l","i","k","e">> >>

\* WeatherHandler.is_weather_query
is_weather_query(user_input) ==
  \/ ContainsAny(Lower(user_input), WeatherKeywords)
  \/ ContainsAny(Lower(user_input), WeatherPhrases)

LocationKeywords ==
  << <<"w","h","e","r","e">>, <<"l","o","c","a","t","i","o","n">>, <<"n","e","a","r","b","y">>, <<"d","i","r","e","c","t","i","o","n","s">>, <<"h","o","w"," ","t","o"," ","g","e","t">>, <<"f","i","n","d">>,
     <<"r","e","s","t","a","u","r","a","n","t">>, <<"s","h","o","p">>, <<"s","t","o","r","e">> >>

\* the location test of process_user_input
is_location_query(user_input) == ContainsAny(Lower(user_input), LocationKeywords)

\* the handler the router picks for each text of the vocabulary that
\* process_query does not answer
SpecialistOf ==
  [u \in Vocabulary |->
     IF is_weather_query(u) THEN "process_weather_query"
     ELSE IF is_location_query(u) THEN "process_location_query"
     ELSE "query_llm"]

\* process_weather_query returns a text, or None after an exception
WeatherResponses == {Msg("process_weather_query(user_input)"), NoResponse}
LocationResponses == {Msg("process_location_query(user_input)")}
GeneralResponses == {Msg("query_llm(user_input)")}

\* the flags of the event handler that say a session is going on
SessionFlags(h) == h.creating \/ h.updating \/ h.awaiting

\* Turned with send_to_tts called only for a response that is not None
Turned_SpeaksIfText(h, inEv, rt, cs, resp) ==
  [h |-> h, inEv |-> inEv, route |-> rt, calls |-> cs, response |-> resp,
   tts |-> IF resp = NoResponse THEN <<>> ELSE <<resp>>]

\* What one turn gives when process_user_input returns: the handler's state,
\* in_event_creation, the handlers called, the collaborator calls of
\* process_query, and the text of the one send_to_tts that precedes each
\* return (lines 128, 135, 141, 148, 153) or ends the except clause (159);
\* send_to_tts catches every exception of the request, so that the except
\* clause is entered only before a send
Turned(h, inEv, rt, cs, resp) ==
  [h |-> h, inEv |-> inEv, route |-> rt, calls |-> cs, response |-> resp,
   tts |-> <<resp>>]

\* process_user_input from line 131 on: no session, or process_query gave None
RouteNew(h, inEv, user_input, llm, cal, rt) ==
  UNION {
    IF o.raised
    THEN {Turned(o.h, inEv, rt \o <<"process_query", "except">>, o.calls, ErrorResponse)}
    ELSE IF o.ret # NoResponse
    THEN {Turned(o.h, TRUE, rt \o <<"process_query">>, o.calls, o.ret)}
    ELSE IF SpecialistOf[user_input] = "process_weather_query"
    THEN {Turned(o.h, inEv, rt \o <<"process_query", "process_weather_query">>, o.calls, r)
            : r \in WeatherResponses}
    ELSE IF SpecialistOf[user_input] = "process_location_query"
    THEN {Turned(o.h, inEv, rt \o <<"process_query", "process_location_query">>, o.calls, r)
            : r \in LocationResponses}
    ELSE {Turned(o.h, inEv, rt \o <<"process_query", "query_llm">>, o.calls, r)
            : r \in GeneralResponses}
    : o \in process_query(h, user_input, llm, cal) }

\* the test of line 117
SessionActive(h, inEv) == inEv \/ h.creating \/ h.updating \/ h.awaiting

\* AI_Assistant.process_user_input
process_user_input(h, inEv, user_input, llm, cal) ==
  IF SessionActive(h, inEv)
  THEN UNION {
         IF o.raised
         THEN {Turned(o.h, inEv, <<"insert_conversation", "process_query", "except">>,
                      o.calls, ErrorResponse)}
         ELSE IF o.ret # NoResponse
         THEN {Turned(o.h, SessionFlags(o.h), <<"insert_conversation", "process_query">>,
                      o.calls, o.ret)}
         ELSE RouteNew(o.h, inEv, user_input, llm, cal,
                       <<"insert_conversation", "process_query">>)
         : o \in process_query(h, user_input, llm, cal) }
  ELSE RouteNew(h, inEv, user_input, llm, cal, <<"insert_conversation">>)

-----------------------------------------------------------------------------
(* GoogleCalendarHandler: the operations on the remote calendar.  A time is *)
(* a number of minutes from the midnight that starts today; an event of the *)
(* calendar is its start, its end and the minutes of its popup reminder.    *)

EventIds == {"e1", "e2"}
NoEvent == [start |-> 0, end |-> 0, minutes |-> 0]

\* how one request to the remote calendar ends: execute() returns, raises
\* HttpError, or raises an error of the transport
RemoteOutcomes == {"ok", "HttpError", "ServerNotFoundError"}

\* how the two requests of an operation end, the second being made only
\* after the first has returned
TwoRequests ==
  {<<"ok", net>> : net \in RemoteOutcomes} \cup {<<net, "ok">> : net \in RemoteOutcomes}

\* What strptime("%Y-%m-%d") and dateparser.parse give for the date texts of
\* the model: <<text, strptime accepts it, dateparser accepts it, the day>>;
\* today is day 0
DateTexts ==
  << << "2025-03-21", TRUE, TRUE, 2 >>,
     << "March 22nd", FALSE, TRUE, 3 >>,
     << "soon", FALSE, FALSE, 0 >> >>

\* What re.search(r'(\d{1,2}):?(\d{2})?\s*(am|pm)?', text.lower()) gives for
\* the time texts of the model: <<text, it matches, group 1, group 2 (0 when
\* None), group 3 ("" when None)>>
TimeTexts ==
  << << "10:00:00", TRUE, 10, 0, "" >>,
     << "10:30:00", TRUE, 10, 30, "" >>,
     << "11 am", TRUE, 11, 0, "am" >>,
     << "noon", FALSE, 0, 0, "" >> >>

\* What re.search(r'(\d+)\s*minutes?', text) gives for the reminder texts of
\* the model: <<text, it matches, int(group 1)>>
ReminderPhrases ==
  << << "30 minutes before", TRUE, 30 >>,
     << "1 hour", FALSE, 0 >> >>

\* the conversion to the 24-hour clock of lines 148-151, 229-232, 311-314
\* and 599-602
Hour24(i) ==
  LET hour == TimeTexts[i][3]
      ampm == TimeTexts[i][5]
  IN  IF ampm = "pm" /\ hour < 12 THEN hour + 12
      ELSE IF ampm = "am" /\ hour = 12 THEN 0
      ELSE hour

\* the minute of the day of a time text that matches
MinuteOfDay(i) == 60 * Hour24(i) + TimeTexts[i][4]

\* the parse of a date given as a string in check_for_conflicts,
\* reschedule_event and update_event_field: strptime, then dateparser
DateParses(i) == DateTexts[i][2] \/ DateTexts[i][3]

\* reminder_minutes of insert_event and of update_event_field: the number in
\* the text, 10 otherwise
PopupMinutes(k) == IF ReminderPhrases[k][2] THEN ReminderPhrases[k][3] ELSE 10

\* What an operation gives its caller: a returned value (its success flag,
\* "None" when it has none, its message or result, and the events it lists),
\* or an exception that escapes
Gave(op, flag, result, items) ==
  [op |-> op, raised |-> FALSE, exc |-> "", flag |-> flag, result |-> result,
   items |-> items]
Escaped(op, exc) ==
  [op |-> op, raised |-> TRUE, exc |-> exc, flag |-> "None", result |-> "None",
   items |-> {}]

\* an operation and the calendar after it
Done(ret, cal) == [ret |-> ret, cal |-> cal]

\* the events of the calendar
Existing(cal) == {id \in EventIds : cal[id] # NoEvent}

\* events().list(timeMin, timeMax) of the Calendar API: the events that end
\* after timeMin and start before timeMax
events_list(cal, timeMin, timeMax) ==
  {id \in Existing(cal) : cal[id].end > timeMin /\ cal[id].start < timeMax}

\* the start of the event insert_event builds from a date and a time that
\* are given: a date that is not in ISO form goes through dateparser, with
\* tomorrow as the fallback; a time that does not match is 12:00
InsertStart(i, j) ==
  LET day == IF DateParses(i) THEN DateTexts[i][4] ELSE 1
      minute == IF TimeTexts[j][2] THEN MinuteOfDay(j) ELSE 60 * 12
  IN  1440 * day + minute

\* GoogleCalendarHandler.insert_event on date text i, time text j and
\* reminder text k, for a calendar with room for one more event: HttpError is
\* raised again as Exception (line 197), any other exception is not caught
insert_event(cal, i, j, k, net) ==
  IF net = "HttpError" THEN Done(Escaped("insert_event", "Exception"), cal)
  ELSE IF net # "ok" THEN Done(Escaped("insert_event", net), cal)
  ELSE LET id == CHOOSE e \in EventIds : cal[e] = NoEvent
           ev == [start |-> InsertStart(i, j), end |-> InsertStart(i, j) + 60,
                  minutes |-> PopupMinutes(k)]
       IN  Done(Gave("insert_event", "None", "created_event", {}),
                [cal EXCEPT ![id] = ev])

\* GoogleCalendarHandler.get_events for the day d: only HttpError is caught
get_events(cal, d, net) ==
  IF net = "HttpError"
  THEN Done(Gave("get_events", "None", "Sorry, I couldn't fetch your events. Please try again later.", {}), cal)
  ELSE IF net # "ok" THEN Done(Escaped("get_events", net), cal)
  ELSE LET events == events_list(cal, 1440 * d, 1440 * (d + 1))
       IN  IF events = {}
           THEN Done(Gave("get_events", "None", "You have no events scheduled for this date.", {}), cal)
           ELSE Done(Gave("get_events", "None", "Here are your events for this date: ...", events), cal)

\* GoogleCalendarHandler.check_for_conflicts on date text i and time text j:
\* every event the calendar lists between one hour before and two hours
\* after the requested time is returned as a conflict
check_for_conflicts(cal, i, j, net) ==
  IF ~DateParses(i)
  THEN Done(Gave("check_for_conflicts", "None", "Could not parse the date format", {}), cal)
  ELSE IF ~TimeTexts[j][2]
  THEN Done(Gave("check_for_conflicts", "None", "Could not parse the time format", {}), cal)
  ELSE IF net # "ok"
  THEN Done(Gave("check_for_conflicts", "None", "Error checking calendar: {e}", {}), cal)
  ELSE LET requested == 1440 * DateTexts[i][4] + MinuteOfDay(j)
           conflicts == events_list(cal, requested - 60, requested + 120)
       IN  Done(Gave("check_for_conflicts", "None", "None", conflicts), cal)

\* GoogleCalendarHandler.reschedule_event: events().get, the parse of date
\* and time, events().update; get raises HttpError for an event that does
\* not exist; every exception is caught
reschedule_event(cal, id, i, j, net1, net2) ==
  IF net1 # "ok" \/ cal[id] = NoEvent
  THEN Done(Gave("reschedule_event", "False", "Error rescheduling event: {e}", {}), cal)
  ELSE IF ~DateParses(i)
  THEN Done(Gave("reschedule_event", "False", "Could not parse the provided date", {}), cal)
  ELSE IF ~TimeTexts[j][2]
  THEN Done(Gave("reschedule_event", "False", "Could not parse the provided time", {}), cal)
  ELSE IF net2 # "ok"
  THEN Done(Gave("reschedule_event", "False", "Error rescheduling event: {e}", {}), cal)
  ELSE LET new_start == 1440 * DateTexts[i][4] + MinuteOfDay(j)
           duration == cal[id].end - cal[id].start
       IN  Done(Gave("reschedule_event", "True", "Successfully rescheduled ...", {}),
                [cal EXCEPT ![id].start = new_start, ![id].end = new_start + duration])

\* GoogleCalendarHandler.cancel_event: events().get, events().delete
cancel_event(cal, id, net1, net2) ==
  IF net1 # "ok" \/ cal[id] = NoEvent \/ net2 # "ok"
  THEN Done(Gave("cancel_event", "False", "Error canceling event: {e}", {}), cal)
  ELSE Done(Gave("cancel_event", "True", "Successfully canceled ...", {}),
            [cal EXCEPT ![id] = NoEvent])

\* the fields update_event_field is asked to change in the model
UpdateFields == {"location", "date", "time", "reminder"}

\* the event after the change of one field (lines 554-641); i, j, k: the
\* value as a date, time or reminder text
UpdatedEvent(ev, field, i, j, k) ==
  LET duration == ev.end - ev.start
      day == ev.start \div 1440
      minute == ev.start % 1440
  IN  CASE field = "date" ->
             [ev EXCEPT !.start = 1440 * DateTexts[i][4] + minute,
                        !.end = 1440 * DateTexts[i][4] + minute + duration]
        [] field = "time" ->
             [ev EXCEPT !.start = 1440 * day + MinuteOfDay(j),
                        !.end = 1440 * day + MinuteOfDay(j) + duration]
        [] field = "reminder" -> [ev EXCEPT !.minutes = PopupMinutes(k)]
        [] OTHER -> ev

\* GoogleCalendarHandler.update_event_field: events().get, the change of the
\* field, events().update
update_event_field(cal, id, field, i, j, k, net1, net2) ==
  IF net1 # "ok" \/ cal[id] = NoEvent
  THEN Done(Gave("update_event_field", "False", "Error updating event: {e}", {}), cal)
  ELSE IF field = "date" /\ ~DateParses(i)
  THEN Done(Gave("update_event_field", "False", "Could not parse the new date", {}), cal)
  ELSE IF field = "time" /\ ~TimeTexts[j][2]
  THEN Done(Gave("update_event_field", "False", "Could not parse the new time", {}), cal)
  ELSE IF net2 # "ok"
  THEN Done(Gave("update_event_field", "False", "Error updating event: {e}", {}), cal)
  ELSE Done(Gave("update_event_field", "True", "Successfully updated the {field} of the event.", {}),
            [cal EXCEPT ![id] = UpdatedEvent(cal[id], field, i, j, k)])

-----------------------------------------------------------------------------
(* The system *)

\* the event handler's state, read from the variables
TheHandler ==
  Handler(current_event, is_creating_event, is_updating_event, current_question,
          awaiting_confirmation)

Init ==
  /\ current_event = EmptyEvent
  /\ is_creating_event = FALSE
  /\ is_updating_event = FALSE
  /\ current_question = "None"
  /\ awaiting_confirmation = FALSE
  /\ llm_interface \in BOOLEAN
  /\ calendar_service \in BOOLEAN
  /\ in_event_creation = FALSE
  /\ utterance = <<>>
  /\ route = <<>>
  /\ calls = <<>>
  /\ response = NoResponse
  /\ spoken = <<>>
  /\ speech_recognizer = TRUE
  /\ session_active = TRUE
  /\ callbacks_running = 0
  /\ primary_calendar = [id \in EventIds |-> NoEvent]
  /\ returned = Gave("__init__", "None", "None", {})

\* callback_function(user_input): process_user_input on one utterance
Process(u) ==
  \E t \in process_user_input(TheHandler, in_event_creation, u,
                              llm_interface, calendar_service) :
    /\ current_event' = t.h.ev
    /\ is_creating_event' = t.h.creating
    /\ is_updating_event' = t.h.updating
    /\ current_question' = t.h.question
    /\ awaiting_confirmation' = t.h.awaiting
    /\ in_event_creation' = t.inEv
    /\ utterance' = u
    /\ route' = t.route
    /\ calls' = t.calls
    /\ response' = t.response
    /\ spoken' = t.tts
    /\ UNCHANGED <<llm_interface, calendar_service, calendar>>

\* recognized_callback on an utterance other than the stop command, from
\* the event to its return: recognition is paused, the utterance is
\* processed, recognition is resumed
Turn(u) ==
  /\ speech_recognizer /\ session_active
  /\ Process(u)
  /\ UNCHANGED speech

\* The state machine is asking for a field it takes verbatim
AsksVerbatim ==
  /\ is_creating_event /\ ~is_updating_event /\ ~awaiting_confirmation
  /\ current_question \in {"name", "location", "details", "reminder"}

\* The state machine has asked what to change
AsksForChange == is_updating_event /\ ~awaiting_confirmation

\* the utterances of the next turn
Heard ==
  IF AsksVerbatim /\ current_question = "reminder" THEN ReminderAnswers
  ELSE IF AsksVerbatim THEN Answers
  ELSE IF AsksForChange THEN ChangeRequests
  ELSE Utterances

\* an utterance while the router sees a session
ContinueSession ==
  \E u \in Heard : SessionActive(TheHandler, in_event_creation) = TRUE /\ Turn(u)

\* an utterance while the router sees no session
NewRequest ==
  \E u \in Heard : SessionActive(TheHandler, in_event_creation) = FALSE /\ Turn(u)

Next == ContinueSession \/ NewRequest

Spec == Init /\ [][Next]_vars

-----------------------------------------------------------------------------
(* The cooperative user *)

\* the user gives an answer that is accepted: the state machine leaves the
\* question it asked
AnswersAcceptably ==
  \E u \in Heard :
    /\ is_creating_event /\ ~is_updating_event /\ ~awaiting_confirmation
    /\ Turn(u)
    /\ (current_question' # current_question \/ awaiting_confirmation')

\* the user asks for a change that is understood
ChangeUnderstood ==
  \E u \in Heard : is_updating_event /\ ~awaiting_confirmation /\ Turn(u) /\ awaiting_confirmation'

\* the user confirms the summary
SaysYes == awaiting_confirmation /\ Turn(<<"Y","e","s">>)

\* Spec with a user who goes on talking, whose answers and change requests
\* are accepted again and again as long as they can be, and who says "yes"
\* to the summary again and again as long as it is asked for
LiveSpec ==
  /\ Spec
  /\ WF_vars(Next)
  /\ SF_vars(AnswersAcceptably) /\ SF_vars(ChangeUnderstood) /\ SF_vars(SaysYes)

-----------------------------------------------------------------------------
(* The speech handler, step by step *)

StopPhrase == <<"s","t","o","p"," ","s","e","s","s","i","o","n">>

\* is_stop taking only the bare phrase for the stop command
is_stop_WholeUtterance(user_input) == Lower(user_input) = StopPhrase

\* the test of line 56
is_stop(user_input) == Contains(Lower(user_input), StopPhrase)

\* is_stop for each text of the vocabulary
StopOf == [u \in Vocabulary |-> is_stop(u)]

\* pause_transcription without its effect
pause_transcription_Skipped(recognizer) == recognizer

\* SpeechHandler.pause_transcription: the recognizer is stopped and
\* self.speech_recognizer is None
pause_transcription(recognizer) == FALSE

\* SpeechHandler.start_transcription: a new recognizer listens
start_transcription == TRUE

\* recognized_callback up to and including the call of callback_function
\* (lines 53-66): a listening recognizer delivers an utterance, whether or
\* not an earlier callback is still running
Recognized ==
  \E u \in Heard \cup StopCommands :
    /\ speech_recognizer /\ ~StopOf[u] /\ session_active
    /\ speech_recognizer' = pause_transcription(speech_recognizer)
    /\ callbacks_running' = callbacks_running + 1
    /\ Process(u)
    /\ UNCHANGED session_active

\* callback_function has returned: resume_transcription (line 67)
Returned ==
  /\ callbacks_running > 0
  /\ callbacks_running' = callbacks_running - 1
  /\ speech_recognizer' = start_transcription
  /\ UNCHANGED <<dialogue, session_active, calendar>>

\* recognized_callback on the stop command (lines 56-60)
Stopped ==
  \E u \in Heard \cup StopCommands :
    /\ speech_recognizer /\ StopOf[u]
    /\ session_active' = FALSE
    /\ speech_recognizer' = pause_transcription(speech_recognizer)
    /\ UNCHANGED <<dialogue, callbacks_running, calendar>>

SpeechNext == Recognized \/ Returned \/ Stopped

SpeechSpec == Init /\ [][SpeechNext]_vars

-----------------------------------------------------------------------------
(* The calendar handler, one operation per step *)

\* the value update_event_field is given for each field: a date text, a time
\* text, a reminder text, or a text that is written as it is
ValuesFor(field) ==
  CASE field = "date" -> {<<i, 1, 1>> : i \in DOMAIN DateTexts}
    [] field = "time" -> {<<1, j, 1>> : j \in DOMAIN TimeTexts}
    [] field = "reminder" -> {<<1, 1, k>> : k \in DOMAIN ReminderPhrases}
    [] OTHER -> {<<1, 1, 1>>}

\* the variables the calendar operations leave alone
CalendarFrame == UNCHANGED <<dialogue, speech>>

Applied(done) == primary_calendar' = done.cal /\ returned' = done.ret /\ CalendarFrame

InsertEvent ==
  \E i \in DOMAIN DateTexts, j \in DOMAIN TimeTexts, k \in DOMAIN ReminderPhrases,
     net \in RemoteOutcomes :
    /\ Existing(primary_calendar) # EventIds
    /\ Applied(insert_event(primary_calendar, i, j, k, net))

GetEvents ==
  \E i \in DOMAIN DateTexts, net \in RemoteOutcomes :
    /\ DateParses(i)
    /\ Applied(get_events(primary_calendar, DateTexts[i][4], net))

CheckForConflicts ==
  \E i \in DOMAIN DateTexts, j \in DOMAIN TimeTexts, net \in RemoteOutcomes :
    Applied(check_for_conflicts(primary_calendar, i, j, net))

RescheduleEvent ==
  \E id \in EventIds, i \in DOMAIN DateTexts, j \in DOMAIN TimeTexts, net \in TwoRequests :
    Applied(reschedule_event(primary_calendar, id, i, j, net[1], net[2]))

CancelEvent ==
  \E id \in EventIds, net \in TwoRequests :
    Applied(cancel_event(primary_calendar, id, net[1], net[2]))

UpdateEventField ==
  \E id \in EventIds, field \in UpdateFields, net \in TwoRequests :
    \E v \in ValuesFor(field) :
      Applied(update_event_field(primary_calendar, id, field, v[1], v[2], v[3],
                                 net[1], net[2]))

CalendarNext ==
  \/ InsertEvent \/ GetEvents \/ CheckForConflicts
  \/ RescheduleEvent \/ CancelEvent \/ UpdateEventField

CalendarSpec == Init /\ [][CalendarNext]_vars

-----------------------------------------------------------------------------
(* The modes of the dialogue session, read from the handler's flags *)

Idle == ~is_creating_event /\ ~is_updating_event /\ ~awaiting_confirmation
AwaitingConfirmation == awaiting_confirmation
Updating == is_updating_event /\ ~awaiting_confirmation
Collecting == is_creating_event /\ ~is_updating_event /\ ~awaiting_confirmation

\* a value that is unset: None, or the empty text
Unset(v) == v = None \/ v = Str(<<>>)

\* field f of the draft still has to be asked for
Pending(ev, f) ==
  CASE f = "details" -> ev[f] = NoDetails
    [] f = "reminder" -> ev[f] = NoReminder
    [] OTHER -> Unset(ev[f])

\* all six fields of ev are set
AllSixSet(ev) == \A f \in Fields : ~Pending(ev, f)

SaidYes(u) == Contains(Lower(u), Yes)
SaidNo(u) == Contains(Lower(u), No)

HandlerUnchanged ==
  UNCHANGED <<current_event, is_creating_event, is_updating_event, current_question,
              awaiting_confirmation>>

StorageFailed(c) == c.op = "save_event_to_db" /\ c.res \in {"no connection", "error"}

-----------------------------------------------------------------------------
(* Properties *)

\* C1: in Collecting the pending field is the first field, in the order name,
\* date, time, location, details, reminder, that is unset or at its
\* sentinel, and a question that is asked is the question of that field.
C1_AsksFirstUnsetField ==
  /\ Collecting =>
       \E i \in 1..Len(FieldNames) :
         /\ current_question = FieldNames[i]
         /\ Pending(current_event, FieldNames[i])
         /\ \A k \in 1..(i - 1) : ~Pending(current_event, FieldNames[k])
  /\ \A f \in Fields : response = Ask(f) => Collecting /\ current_question = f

\* C1 witness: the name is asked for although date and time are pre-filled
C1_Witness ==
  /\ Collecting /\ current_question = "name" /\ response = Ask("name")
  /\ ~Unset(current_event.date) /\ ~Unset(current_event.time)

\* C2: the calendar is called only right after a successful storage write of
\* the same draft; after a failed storage write there is no calendar call
\* and the message carries the storage error.
C2_CalendarOnlyAfterStorage ==
  /\ \A i \in 1..Len(calls) :
       calls[i].op = "add_to_google_calendar" =>
         /\ i > 1
         /\ calls[i - 1].op = "save_event_to_db"
         /\ calls[i - 1].res = "inserted"
         /\ calls[i - 1].ev = calls[i].ev
  /\ \A i \in 1..Len(calls) :
       StorageFailed(calls[i]) =>
         /\ \A k \in 1..Len(calls) : calls[k].op # "add_to_google_calendar"
         /\ response = ProblemMessage(IF calls[i].res = "no connection"
                                      THEN ConnectionErrorText ELSE MySqlErrorText)

\* C2 witness: a calendar is configured, the storage write failed
C2_Witness ==
  /\ calendar_service /\ SaidYes(utterance)
  /\ Len(calls) = 1 /\ StorageFailed(calls[1])
  /\ response = ProblemMessage(MySqlErrorText)

\* C3: a confirmed draft with all six fields set whose storage write succeeded
\* is reported as added, whatever the calendar did; the sync clause is there
\* exactly when the calendar insertion succeeded.
C3_PersistedWhateverCalendar ==
  \A i \in 1..Len(calls) :
    (calls[i].op = "save_event_to_db" /\ calls[i].res = "inserted"
       /\ AllSixSet(calls[i].ev)) =>
      LET synced == \E k \in 1..Len(calls) :
                      calls[k].op = "add_to_google_calendar" /\ calls[k].res = "inserted"
      IN  response = IF synced THEN AddedAndSyncedMessage(calls[i].ev)
                     ELSE AddedMessage(calls[i].ev)

\* C3 witness: stored, the calendar insertion failed, reported as added
C3_Witness ==
  /\ Len(calls) = 2
  /\ calls[1].op = "save_event_to_db" /\ calls[1].res = "inserted"
  /\ AllSixSet(calls[1].ev)
  /\ calls[2].op = "add_to_google_calendar" /\ calls[2].res = "error"
  /\ response = AddedMessage(calls[1].ev)

\* C4: a "yes" in AwaitingConfirmation always leaves the session Idle with a
\* fresh empty draft and no pending field.
C4_YesAlwaysResets ==
  [][(AwaitingConfirmation /\ SaidYes(utterance')) =>
       (Idle' /\ current_event' = EmptyEvent /\ current_question' = "None")]_vars

\* C5: the turn after a confirming "yes", when it is a "yes" again, is not
\* handled as event input: no collaborator is called and the utterance
\* goes to the general LLM.
C5_SecondYesIsFresh ==
  [][(SaidYes(utterance) /\ Len(calls) > 0 /\ calls[1].op = "save_event_to_db"
        /\ SaidYes(utterance')) =>
       (Idle /\ Idle' /\ calls' = <<>>
          /\ route' = <<"insert_conversation", "process_query", "query_llm">>)]_vars

\* C6: an utterance that arrives while the session is not Idle goes to
\* process_query and to none of the weather, location and general handlers.
C6_ActiveSessionGetsEveryUtterance ==
  [][~Idle =>
       /\ Len(route') >= 2 /\ route'[2] = "process_query"
       /\ \A i \in 1..Len(route') :
            route'[i] \notin {"process_weather_query", "process_location_query",
                              "query_llm"}]_vars

\* C6 witness: a weather utterance and an event-intent utterance, each
\* answered by the state machine during a session
C6_Witness ==
  /\ AwaitingConfirmation /\ utterance \in { <<"r","a","i","n">>, <<"A","d","d"," ","m","e","e","t","i","n","g">> }
  /\ route = <<"insert_conversation", "process_query">>
  /\ response = YesNoReprompt

\* C7: in AwaitingConfirmation an utterance with neither "yes" nor "no"
\* changes nothing of the session, calls no collaborator and is answered
\* by the yes/no re-prompt.
C7_OtherUtteranceChangesNothing ==
  [][(AwaitingConfirmation /\ ~SaidYes(utterance') /\ ~SaidNo(utterance')) =>
       (HandlerUnchanged /\ calls' = <<>> /\ response' = YesNoReprompt)]_vars

\* C7 witness: the re-prompt after "find"
C7_Witness ==
  /\ AwaitingConfirmation /\ utterance = <<"f","i","n","d">> /\ response = YesNoReprompt
  /\ calls = <<>>

\* C8: in AwaitingConfirmation an utterance with both "yes" and "no" runs
\* the commit pipeline and resets the session to Idle, never to Updating.
C8_YesWinsOverNo ==
  [][(AwaitingConfirmation /\ SaidYes(utterance') /\ SaidNo(utterance')) =>
       /\ Len(calls') > 0 /\ calls'[1].op = "save_event_to_db"
       /\ Idle' /\ ~Updating']_vars

\* C9: in AwaitingConfirmation an utterance with "no" and without "yes",
\* such as "nope", moves the session to Updating with the draft as it was,
\* commits nothing and is answered by the what-to-change prompt.
C9_NopeIsNo ==
  [][(AwaitingConfirmation /\ SaidNo(utterance') /\ ~SaidYes(utterance')) =>
       /\ Updating' /\ is_creating_event' /\ current_question' = current_question
       /\ current_event' = current_event
       /\ calls' = <<>>
       /\ response' = WhatToChange]_vars

\* C9 witness: Updating after "nope"
C9_Witness == Updating /\ utterance = <<"n","o","p","e">> /\ response = WhatToChange

\* C10: in Collecting(date) the answer of the extractor becomes the draft's
\* date only if it has exactly 10 characters; otherwise nothing of the
\* session changes and the date is asked for again.
C10_DateNeedsTenCharacters ==
  [][(Collecting /\ current_question = "date" /\ Len(calls') >= 1
        /\ calls'[1].op = "query_llm") =>
       IF Len(calls'[1].reply) = 10
       THEN current_event' = [current_event EXCEPT !.date = Str(calls'[1].reply)]
       ELSE HandlerUnchanged /\ response' = DateNotUnderstood]_vars

\* C10 witness: a 9-character answer was refused and the date is still asked for
C10_Witness ==
  /\ Collecting /\ current_question = "date" /\ Unset(current_event.date)
  /\ Len(calls) = 1 /\ calls[1].reply = <<"2","1","/","3","/","2","0","2","5">>
  /\ response = DateNotUnderstood
-----------------------------------------------------------------------------
(* The update branch *)

\* the text is a JSON object, written between braces
IsObjectText(text) == text # <<>> /\ text[1] = "{" /\ text[Len(text)] = "}"

\* the reply of the LLM, code fence stripped, is a structured update
StructuredUpdate(reply) == IsObjectText(JsonText(reply))

\* the field -> new value pairs such a reply carries
UpdateOf(reply) == JsonLoads(JsonText(reply)).dict

\* the step is the answer of the update branch to a reply of the LLM
UpdateStep == Updating /\ Len(calls') = 1 /\ calls'[1].op = "query_llm"

\* C11: in Updating, on a well-formed update response, exactly the keys that
\* name one of the six fields are overwritten with their new values, every
\* other key of the response changes nothing, every other field keeps its
\* value, and the session goes to AwaitingConfirmation with the summary.
C11_UpdateWritesExactlyNamedFields ==
  [][(UpdateStep /\ StructuredUpdate(calls'[1].reply)) =>
       LET updates == UpdateOf(calls'[1].reply)
       IN  /\ DOMAIN current_event' = DOMAIN current_event
           /\ \A k \in DOMAIN current_event :
                current_event'[k] = IF k \in Fields /\ k \in DOMAIN updates
                                    THEN updates[k] ELSE current_event[k]
           /\ AwaitingConfirmation' /\ ~is_updating_event'
           /\ response' = FormatEventSummary(current_event')]_vars

\* C12: in Updating, when the reply of the extractor is no structured update,
\* the session stays in Updating, no field of the draft changes and the
\* error-recovery prompt is returned.
C12_MalformedUpdateKeepsDraft ==
  [][(UpdateStep /\ ~StructuredUpdate(calls'[1].reply)) =>
       (HandlerUnchanged /\ Updating' /\ response' = UpdateNotUnderstood)]_vars

\* C12 witness: the reply `[]`, JSON but no mapping, was refused
C12_Witness ==
  /\ Updating /\ response = UpdateNotUnderstood
  /\ Len(calls) = 1 /\ calls[1].op = "query_llm" /\ calls[1].reply = <<"[","]">>
  /\ ~Unset(current_event.name)

-----------------------------------------------------------------------------
(* No LLM collaborator *)

\* the step hands an utterance to a branch of process_query that asks the
\* extractor: the start of a session, a date or time answer, a change request
AsksExtractor(u) ==
  \/ Idle /\ is_event_query(u)
  \/ Collecting /\ current_question \in {"date", "time"}
  \/ Updating

\* the prompts that ask the user to say it again
RetypePrompts ==
  {Ask(f) : f \in Fields} \cup {DateNotUnderstood, TimeNotUnderstood, UpdateNotUnderstood}

\* C13: with no Field Extractor configured, every transition that depends on
\* extraction returns a prompt asking the user to retype, raises no error
\* and leaves the session where an answer can be given.
C13_NoExtractorAsksToRetype ==
  [][(~llm_interface /\ AsksExtractor(utterance')) =>
       /\ \A i \in 1..Len(route') : route'[i] # "except"
       /\ response' \in RetypePrompts
       /\ response' # ErrorResponse]_vars

-----------------------------------------------------------------------------
(* The draft *)

\* C14: in every reachable state the details and the reminder of the draft
\* hold a string, the sentinel or an answer; neither is ever unset.
C14_DetailsAndReminderAreStrings ==
  /\ current_event.details.t = "str"
  /\ current_event.reminder.t = "str"

-----------------------------------------------------------------------------
(* The reminder of a committed draft *)

\* the storage write of call c went through
Committed(c) == c.op = "save_event_to_db" /\ c.res = "inserted"

\* the text contains a label of the Reminder Catalog, whatever the case
MatchesLabel(text) ==
  \E i \in 1..Len(ReminderLabels) : Contains(Lower(text), Lower(ReminderLabels[i]))

\* the reminder of the draft is a text other than the sentinel that matches
\* no label
UnmatchedReminder(ev) ==
  /\ ev.reminder.t = "str" /\ ev.reminder # NoReminder
  /\ ~MatchesLabel(ev.reminder.s)

\* C15 as stated: a confirmed draft whose reminder text is not the sentinel
\* and matches no label of the Reminder Catalog is committed with a reminder
\* of exactly 10 minutes.
C15_UnmatchedReminderIsTenMinutes ==
  \A i \in 1..Len(calls) :
    (Committed(calls[i]) /\ UnmatchedReminder(calls[i].ev)) => calls[i].minutes = 10

\* C15 amended: a confirmed draft whose reminder text is not empty, is not
\* the sentinel and matches no label is committed with exactly 10 minutes;
\* an empty reminder text is committed with no reminder.
C15_NonEmptyUnmatchedReminderIsTenMinutes ==
  \A i \in 1..Len(calls) :
    (Committed(calls[i]) /\ UnmatchedReminder(calls[i].ev)) =>
      calls[i].minutes = IF calls[i].ev.reminder.s = <<>> THEN 0 ELSE 10

\* C15 witness: the answer "rain" to the reminder question, committed
C15_Witness ==
  /\ Len(calls) >= 1 /\ Committed(calls[1])
  /\ calls[1].ev.reminder = Str(<<"r","a","i","n">>) /\ calls[1].minutes = 10

\* C16: for every label of the Reminder Catalog, a draft whose reminder is
\* that label is committed with exactly the minutes the catalog maps the
\* label to, in storage and on the calendar event.
C16_LabelGivesItsMinutes ==
  \A i \in 1..Len(calls) : \A k \in 1..Len(ReminderLabels) :
    (calls[i].op \in {"save_event_to_db", "add_to_google_calendar"}
       /\ calls[i].res = "inserted"
       /\ calls[i].ev.reminder = Str(ReminderLabels[k])) =>
      calls[i].minutes = ReminderMinutes[k]

-----------------------------------------------------------------------------
(* The conflict check *)

\* the calendar of the scenario: one event, from 10:00 to 11:00 on a date
ExistingEvent ==
  [date |-> <<"2","0","2","5","-","0","3","-","2","1">>, start |-> <<"1","0",":","0","0",":","0","0">>, end |-> <<"1","1",":","0","0",":","0","0">>]

\* the conflict check of call c reports at least one conflict
ReportsConflict(c) == c.res \notin {NoConflictsFound, CouldNotParse}

\* C17: with an existing calendar event from 10:00 to 11:00 on a date, the
\* conflict check of the state machine reports at least one conflict for a
\* candidate that starts at 10:30 on that date and none for one that starts
\* at 12:00.
C17_ConflictCheckSeesExistingEvent ==
  \A i \in 1..Len(calls) :
    (calls[i].op = "check_conflicts" /\ calls[i].ev.date = Str(ExistingEvent.date)) =>
      /\ calls[i].ev.time = Str(<<"1","0",":","3","0",":","0","0">>) => ReportsConflict(calls[i])
      /\ calls[i].ev.time = Str(<<"1","2",":","0","0",":","0","0">>) => calls[i].res = NoConflictsFound

\* C18: whatever the conflict check returns, once all six fields are set the
\* session is in AwaitingConfirmation and the summary with the yes/no prompt
\* is returned, and a "yes" then runs the commit pipeline.
C18_ConflictCheckNeverBlocks ==
  /\ [](\A i \in 1..Len(calls) :
          calls[i].op = "check_conflicts" =>
            /\ AwaitingConfirmation /\ calls[i].ev = current_event
            /\ response = FormatEventSummary(current_event))
  /\ [][((Idle \/ Collecting) /\ is_creating_event' /\ current_event' # current_event
           /\ AllSixSet(current_event')) =>
          /\ AwaitingConfirmation'
          /\ response' = FormatEventSummary(current_event')
          /\ calls'[Len(calls')].op = "check_conflicts"]_vars
  /\ [][(AwaitingConfirmation /\ SaidYes(utterance')) =>
          (Len(calls') >= 1 /\ calls'[1].op = "save_event_to_db")]_vars

-----------------------------------------------------------------------------
(* The speech handler *)

-----------------------------------------------------------------------------
(* The message of the commit *)

\* the message has the success wording
SaysAdded(resp) ==
  resp.text \in {AddedMessage(EmptyEvent).text, AddedAndSyncedMessage(EmptyEvent).text}

\* the message has the calendar-sync clause
HasSyncClause(resp) == resp.text = AddedAndSyncedMessage(EmptyEvent).text

\* the calendar insertion of this turn succeeded
CalendarSynced ==
  \E k \in 1..Len(calls) :
    calls[k].op = "add_to_google_calendar" /\ calls[k].res = "inserted"

\* C20: after a successful storage write the message names the stored event
\* and has the sync clause exactly when the calendar insertion succeeded;
\* after a failed storage write it carries the storage error text and has
\* neither the success wording nor the sync clause.
C20_CommitMessage ==
  \A i \in 1..Len(calls) :
    /\ Committed(calls[i]) =>
         /\ SaysAdded(response) /\ response.args = <<calls[i].ev.name>>
         /\ HasSyncClause(response) <=> CalendarSynced
    /\ StorageFailed(calls[i]) =>
         /\ response.args =
              <<Str(IF calls[i].res = "no connection"
                    THEN ConnectionErrorText ELSE MySqlErrorText)>>
         /\ ~SaysAdded(response) /\ ~HasSyncClause(response)

\* C20 witness: stored, the calendar refused the date, no sync clause
C20_Witness ==
  /\ calendar_service /\ Len(calls) = 2 /\ Committed(calls[1])
  /\ calls[2].op = "add_to_google_calendar" /\ calls[2].res = "invalid date or time"
  /\ SaysAdded(response) /\ ~HasSyncClause(response)
  /\ response.args = <<calls[1].ev.name>>

-----------------------------------------------------------------------------
(* The initial extraction *)

\* the step is the router handing an event-intent utterance to the idle
\* state machine, with a Field Extractor configured
StartStep == Idle /\ llm_interface /\ EventQueryOf[utterance']

\* the field -> value pairs the reply of the extractor carries, code fence
\* stripped; none when the reply is no JSON object
ExtractedFields(reply) ==
  IF IsObjectText(JsonText(Strip(reply))) /\ IsJson(JsonText(Strip(reply)))
  THEN JsonLoads(JsonText(Strip(reply))).dict
  ELSE <<>>

\* the texts query_llm may return for the extraction prompt
ExtractionTexts == {query_llm(ExtractionReplies[i]) : i \in DOMAIN ExtractionReplies}

\* for each of them: whether it is a mapping, and the pairs it carries
ExtractedOf ==
  [reply \in ExtractionTexts |->
     [mapping |-> IsObjectText(JsonText(Strip(reply))),
      fields |-> ExtractedFields(reply)]]

\* f is the first field of ev, in the order of the questions, still to ask for
FirstPending(ev, f) ==
  \E i \in 1..Len(FieldNames) :
    /\ FieldNames[i] = f
    /\ Pending(ev, f)
    /\ \A k \in 1..(i - 1) : ~Pending(ev, FieldNames[k])

\* C21: on an event-intent utterance in Idle the extractor is called once;
\* every extracted field with a non-empty value is written to the draft,
\* every null or empty one leaves the draft's field as it was, and the first
\* question is chosen from the draft so filled: with date and time extracted
\* and the name null, it asks for the name.
C21_ExtractionFillsDraftFirst ==
  [][StartStep =>
       /\ Cardinality({i \in 1..Len(calls') : calls'[i].op = "query_llm"}) = 1
       /\ calls'[1].op = "query_llm"
       /\ LET got == ExtractedOf[calls'[1].reply].fields
          IN  /\ \A k \in DOMAIN got :
                   IF ~Unset(got[k])
                   THEN k \in DOMAIN current_event' /\ current_event'[k] = got[k]
                   ELSE /\ k \in DOMAIN current_event' <=> k \in DOMAIN current_event
                        /\ k \in DOMAIN current_event => current_event'[k] = current_event[k]
              /\ \A f \in Fields : response' = Ask(f) => FirstPending(current_event', f)
              /\ ({"name", "date", "time"} \subseteq DOMAIN got
                    /\ got.name = None /\ ~Unset(got.date) /\ ~Unset(got.time)) =>
                   response' = Ask("name")]_vars

\* C21 witness: date and time were extracted, the name was null, and the
\* name is asked for
C21_Witness ==
  /\ Collecting /\ utterance = <<"A","d","d"," ","m","e","e","t","i","n","g">>
  /\ Len(calls) = 1 /\ calls[1].op = "query_llm"
  /\ "name" \in DOMAIN ExtractedOf[calls[1].reply].fields
  /\ ExtractedOf[calls[1].reply].fields.name = None
  /\ current_event.date = Str(<<"2","0","2","5","-","0","3","-","2","1">>) /\ current_event.time = Str(<<"1","5",":","0","0",":","0","0">>)
  /\ current_event.name = None /\ response = Ask("name")

-----------------------------------------------------------------------------
(* The router with no session *)

Specialists == {"process_weather_query", "process_location_query", "query_llm"}

\* the handler whose answer was spoken: the last entry of the turn's route
AnsweredBy(rt) == rt[Len(rt)]

\* how many of the weather, location and general handlers the turn called
SpecialistsCalled(rt) == Cardinality({i \in 1..Len(rt) : rt[i] \in Specialists})

\* the specialist the priority weather, location, general gives for u
SpecialistFor(u) ==
  IF is_weather_query(u) THEN "process_weather_query"
  ELSE IF is_location_query(u) THEN "process_location_query"
  ELSE "query_llm"

\* C22: with the session Idle every utterance is answered by exactly one
\* handler: an utterance with an event-intent phrase by the state machine,
\* which starts a session, whatever weather or location keywords it has;
\* any other utterance by the weather handler, else the location handler,
\* else the general LLM, and the session stays Idle.
C22_IdleRoutingPriority ==
  [][Idle =>
       IF is_event_query(utterance')
       THEN /\ AnsweredBy(route') = "process_query" /\ SpecialistsCalled(route') = 0
            /\ ~Idle' /\ is_creating_event'
       ELSE /\ AnsweredBy(route') = SpecialistFor(utterance')
            /\ SpecialistsCalled(route') = 1
            /\ Idle' /\ HandlerUnchanged]_vars

-----------------------------------------------------------------------------
(* The forms of date and time *)

\* v is a text of the form YYYY-MM-DD
CanonicalDate(v) == v.t = "str" /\ DigitsWith(v.s, 10, "-", {5, 8})

\* v is a text of the form HH:MM:SS
CanonicalTime(v) == v.t = "str" /\ DigitsWith(v.s, 8, ":", {3, 6})

\* C23: whenever the date of the draft is set it has the form YYYY-MM-DD,
\* and whenever its time is set it has the form HH:MM:SS, whichever
\* transition wrote it.
C23_DateAndTimeCanonical ==
  /\ ~Unset(current_event.date) => CanonicalDate(current_event.date)
  /\ ~Unset(current_event.time) => CanonicalTime(current_event.time)

-----------------------------------------------------------------------------
(* The time answer when the LLM fails *)

\* call c asked the LLM and the request failed or brought an empty content
LLMFailed(c) ==
  c.op = "query_llm" /\ (c.res = "error" \/ c.reply = SorryMessage)

\* C24: in Collecting(time), when the LLM request fails or brings an empty
\* content, the time of the draft stays unset, the session stays in
\* Collecting(time) and the user is asked for the time again.
C24_FailedTimeExtractionReasks ==
  [][(Collecting /\ current_question = "time" /\ Len(calls') >= 1
        /\ LLMFailed(calls'[1])) =>
       /\ Unset(current_event'.time)
       /\ Collecting' /\ current_question' = "time"
       /\ response' \in {TimeNotUnderstood, Ask("time")}]_vars

-----------------------------------------------------------------------------
(* A reply to the extraction prompt that is no mapping *)

\* the turn ended in the except clause of process_user_input
Raised(rt) == \E i \in 1..Len(rt) : rt[i] = "except"

\* C25: whatever text the extractor returns for the initial extraction
\* prompt, the step from Idle never raises: a reply that is no mapping of
\* field names to values fills no field of the draft, and the session
\* starts by asking for the name.
C25_NonMappingIsEmptyExtraction ==
  [][StartStep =>
       /\ ~Raised(route')
       /\ ~ExtractedOf[calls'[1].reply].mapping =>
            /\ current_event' = current_event
            /\ Collecting' /\ current_question' = "name"
            /\ response' = Ask("name")]_vars

-----------------------------------------------------------------------------
(* The calendar operations when the remote call fails *)

\* C26: every operation of the calendar collaborator (insert, list and
\* conflict query, reschedule, cancel, update of a field) reports a failure
\* of the remote call through the value it returns; none lets an exception
\* escape to its caller.
C26_NoExceptionEscapes == ~returned.raised

-----------------------------------------------------------------------------
(* The session can always be brought to its end *)

\* C27: the dialogue always remains resumable: whatever collaborator failed,
\* with a user who answers each question acceptably and then says "yes" the
\* session gets back to Idle.
C27_SessionReturnsToIdle == ~Idle ~> Idle

-----------------------------------------------------------------------------
(* A draft committed with the sentinel reminder *)

\* C28: a draft committed while its reminder is the sentinel 'No reminder' is
\* stored with the reminder column 'No reminder', no minutes being derived
\* for it, and the calendar event made for it has no reminder override.
C28_SentinelReminderStoredAsNone ==
  \A i \in 1..Len(calls) :
    (calls[i].res = "inserted" /\ calls[i].ev.reminder = NoReminder) =>
      /\ calls[i].minutes = 0
      /\ calls[i].op = "save_event_to_db" =>
           ReminderColumn(calls[i].minutes).text = "No reminder"

\* C28 witness: the reminder was set back to the sentinel by an update, and
\* the draft was stored and put on the calendar
C28_Witness ==
  /\ Len(calls) = 2 /\ Committed(calls[1]) /\ calls[1].ev.reminder = NoReminder
  /\ calls[2].op = "add_to_google_calendar" /\ calls[2].res = "inserted"
  /\ calls[2].ev.reminder = NoReminder /\ calls[2].minutes = 0

-----------------------------------------------------------------------------
(* The pending field *)

\* C29: in every reachable state the flags give exactly one mode: awaiting
\* confirmation and updating are never both set and each is set only during
\* a session; the pending field is empty in Idle, Updating and
\* AwaitingConfirmation, and in Collecting it is one of the six fields.
C29_PendingFieldOnlyInCollecting ==
  /\ ~(awaiting_confirmation /\ is_updating_event)
  /\ awaiting_confirmation => is_creating_event
  /\ is_updating_event => is_creating_event
  /\ (Idle \/ Updating \/ AwaitingConfirmation) => current_question = "None"
  /\ Collecting => current_question \in Fields

\* C29 witness: Updating, entered from the confirmation that followed the
\* reminder question, with no pending field
C29_Witness ==
  /\ Updating /\ is_creating_event /\ current_question = "None"
  /\ current_event.reminder \in {Str(ReminderLabels[i]) : i \in 1..Len(ReminderLabels)}
  /\ current_event.name = Str(<<"r","a","i","n">>)

-----------------------------------------------------------------------------
(* The stop command *)

\* the texts that contain "stop session", whatever the case
SaysStop == [u \in Vocabulary |-> Contains(Lower(u), <<"s","t","o","p"," ","s","e","s","s","i","o","n">>)]

-----------------------------------------------------------------------------
(* The conflict query of the calendar handler *)

\* the start of the candidate check_for_conflicts is asked about
CandidateStart(i, j) == 1440 * DateTexts[i][4] + MinuteOfDay(j)

\* two events conflict: existing.start < candidate.end and
\* existing.end > candidate.start
Overlaps(existing, start, end) == existing.start < end /\ existing.end > start

\* the call of check_for_conflicts on date text i and time text j has just
\* returned from a request that succeeded
ConflictsAsked(i, j) ==
  /\ DateParses(i) /\ TimeTexts[j][2]
  /\ returned'.op = "check_for_conflicts" /\ returned'.result = "None"
  /\ returned' = check_for_conflicts(primary_calendar, i, j, "ok").ret

\* C31: the conflict check reports an existing event exactly when it starts
\* before the candidate's end and ends after the candidate's start, the
\* candidate lasting one hour; an event inside the queried window that does
\* not overlap the candidate is not reported.
C31_ConflictIsOverlap ==
  [][\A i \in DOMAIN DateTexts, j \in DOMAIN TimeTexts :
       ConflictsAsked(i, j) =>
         returned'.items =
           {id \in Existing(primary_calendar) :
              Overlaps(primary_calendar[id], CandidateStart(i, j),
                       CandidateStart(i, j) + 60)}]_vars

-----------------------------------------------------------------------------
(* An utterance in Idle that is no event request *)

\* C32: an utterance that arrives in Idle and matches no event-intent
\* phrase leaves the dialogue session unchanged (mode Idle, empty draft, no
\* pending field) and calls neither the extraction of event fields nor the
\* commit pipeline.
C32_NonEventUtteranceChangesNothing ==
  [][(Idle /\ ~EventQueryOf[utterance']) =>
       /\ HandlerUnchanged
       /\ Idle' /\ current_event' = EmptyEvent /\ current_question' = "None"
       /\ calls' = <<>>]_vars

\* C32 witness: the router saw no session, process_query declined a text
\* with no event phrase, and a specialist answered it
C32_Witness ==
  /\ route = <<"insert_conversation", "process_query", "process_location_query">>
  /\ utterance = <<"f","i","n","d">> /\ ~EventQueryOf[utterance]
  /\ Idle /\ current_event = EmptyEvent /\ calls = <<>>

-----------------------------------------------------------------------------
(* The draft that is shown for confirmation *)

\* C33: whenever the session is in AwaitingConfirmation all six fields of
\* the draft are set: name, date, time and location are not empty, details
\* and reminder differ from their sentinels; on entry from Collecting and
\* after every update, whatever values the update carries.
C33_ConfirmationHasAllSix == AwaitingConfirmation => AllSixSet(current_event)

-----------------------------------------------------------------------------
(* The draft between sessions *)

\* C34: whenever the session is Idle the draft is the fresh empty draft
\* (name, date, time and location unset, details 'No details provided',
\* reminder 'No reminder'): nothing of a previous session, of a failed start
\* or of an utterance that is no event request is left in it.
C34_IdleDraftIsFresh == Idle => current_event = EmptyEvent

\* C34 witness: Idle again after the commit of a draft
C34_Witness ==
  /\ Idle /\ current_event = EmptyEvent
  /\ Len(calls) >= 1 /\ Committed(calls[1])
  /\ calls[1].ev.name = Str(<<"r","a","i","n">>)

-----------------------------------------------------------------------------
(* The answers that are taken verbatim *)

\* the place of a field in the order of the questions
FieldOrder(f) == CHOOSE i \in 1..Len(FieldNames) : FieldNames[i] = f

\* the dialogue has advanced past the question for field f
AdvancedPast(f) ==
  \/ AwaitingConfirmation'
  \/ /\ Collecting' /\ current_question' \in Fields
     /\ FieldOrder(current_question') > FieldOrder(f)

\* C35: in Collecting(f), f one of name, location, details, reminder, every
\* utterance is taken verbatim as the value of f and the dialogue advances:
\* the next pending field is later than f or the session awaits
\* confirmation; the same question is never asked twice in a row.
C35_VerbatimAnswerAdvances ==
  [][AsksVerbatim =>
       /\ current_event'[current_question] = Str(utterance')
       /\ AdvancedPast(current_question)]_vars

\* C35 as amended: every utterance is taken verbatim as the value of f; the
\* dialogue advances unless the value leaves f pending (empty text for name
\* and location, the sentinel for details and reminder), and then the same
\* question is asked again.
C35_VerbatimAnswerAdvancesIfSet ==
  [][AsksVerbatim =>
       /\ current_event'[current_question] = Str(utterance')
       /\ IF Pending(current_event', current_question)
          THEN /\ Collecting' /\ current_question' = current_question
               /\ response' = Ask(current_question)
          ELSE AdvancedPast(current_question)]_vars

\* C35 witness: the answer to the name question was stored and the date is
\* asked for
C35_Witness ==
  /\ Collecting /\ utterance = <<"r","a","i","n">> /\ current_event.name = Str(<<"r","a","i","n">>)
  /\ current_question = "date" /\ response = Ask("date")

-----------------------------------------------------------------------------
(* The reminder in storage and on the calendar *)

\* C36: for one committed draft the reminder written to storage and the
\* reminder set on the calendar event agree: both are no reminder, or both
\* are the same number of minutes, whatever the reminder text (a label, the
\* sentinel, or a text that matches no label).
C36_StorageAndCalendarAgree ==
  (/\ Len(calls) = 2 /\ Committed(calls[1])
   /\ calls[2].op = "add_to_google_calendar" /\ calls[2].res = "inserted")
  => calls[1].minutes = calls[2].minutes

-----------------------------------------------------------------------------
(* What is spoken in a turn *)

-----------------------------------------------------------------------------
(* The router's flag *)

\* C38: after every processed utterance, also one that ended in an
\* exception, in_event_creation of the router equals is_creating_event or
\* is_updating_event or awaiting_confirmation of the event handler.
C38_RouterFlagFollowsHandler ==
  in_event_creation = (is_creating_event \/ is_updating_event \/ awaiting_confirmation)

-----------------------------------------------------------------------------
(* The fallback of process_query *)

\* C39: in every reachable state with a session, exactly one of the
\* confirmation, update and field-answer branches of process_query handles
\* the utterance: there is no state with a session that is not awaiting
\* confirmation, not updating and has no pending field, and the fallback
\* "I'm having trouble processing your request" is never returned.
C39_FallbackNeverReturned ==
  /\ (is_creating_event /\ ~awaiting_confirmation /\ ~is_updating_event)
       => current_question \in Fields
  /\ response # TroubleProcessing

\* C39 witness: the field-answer branch took the answer to the date
\* question, and the time is pending
C39_Witness ==
  /\ Collecting /\ current_question = "time" /\ response = Ask("time")
  /\ Len(calls) = 1 /\ calls[1].op = "query_llm"
  /\ route = <<"insert_conversation", "process_query">>

-----------------------------------------------------------------------------
(* The keys of the draft *)

\* C40: in every reachable state the draft has exactly the six keys name,
\* date, time, location, details and reminder: neither the initial
\* extraction nor an update adds another key.
C40_DraftHasSixKeys == DOMAIN current_event = Fields
====
